---- MODULE Spec2Model ----
(***************************************************************************)
(* A model of the coinflow wire-format codec (coinflow/protocol).          *)
(*                                                                         *)
(* The codec is a family of pure functions.  The state machine below is a  *)
(* caller that hands one input to an encoder or a decoder and then,        *)
(* optionally, hands the produced bytes to the matching decoder:           *)
(*    pc   - the function that returned last ("idle" before any call)      *)
(*    inp  - the value handed to the encoder                               *)
(*    wire - the encoder's result, or the raw buffer handed to a decoder   *)
(*    out  - the decoder's result                                          *)
(* The caller of the message layer also has                                *)
(*    MAGIC, VERSION - the class attributes Message.MAGIC, Message.VERSION *)
(*    msg  - the message object it constructed                             *)
(*    dcls - the class whose decode it called                              *)
(*                                                                         *)
(* Representation of Python values:                                        *)
(*  - bytes: a sequence of numbers 0..255;                                 *)
(*  - an integer that may exceed 31 bits (varint values, services, Unix    *)
(*    seconds): its 8 base-256 digits, least significant first, so the     *)
(*    whole range 0..2^64-1 is covered with its true width;                *)
(*  - a str: the sequence of its Unicode code points;                      *)
(*  - a returned value v: Ok(v); a raised exception e: Raise(e).           *)
(***************************************************************************)
EXTENDS Integers, Sequences, FiniteSets, TLC

VARIABLES pc, inp, wire, out, MAGIC, VERSION, msg, dcls

vars == <<pc, inp, wire, out, MAGIC, VERSION, msg, dcls>>

\* the variables of the message layer
msgvars == <<MAGIC, VERSION, msg, dcls>>

(***************************************************************************)
(* Bounds of the model.                                                    *)
(***************************************************************************)
\* longest short string handed to the VarStr encoders, in characters
MaxStrLen == 3
\* longest raw buffer handed to the VarStr decoders, in bytes
MaxBufLen == 4
\* longest raw buffer handed to the NetAddr decoders, in bytes
MaxRawLen == 31
\* most entries that follow the count in a raw Addr payload
MaxRawEntries == 2

(***************************************************************************)
(* Python values.                                                          *)
(***************************************************************************)
None == [none |-> TRUE]

Ok(v) == [ok |-> TRUE, val |-> v]

Raise(e) == [ok |-> FALSE, err |-> e]

Min(a, b) == IF a < b THEN a ELSE b

Max(a, b) == IF a > b THEN a ELSE b

\* b[i:j] of a Python sequence, 0 <= i, 0 <= j: never fails, clamps to len(b)
Slice(b, i, j) == IF i >= Min(j, Len(b)) THEN <<>> ELSE SubSeq(b, i + 1, Min(j, Len(b)))

\* b[-k:] of a Python sequence
Tail_(b, k) == Slice(b, Max(Len(b) - k, 0), Len(b))

Zeros(k) == [i \in 1..k |-> 0]

\* the integer whose little-endian base-256 digits start with bs
Wide(bs) == bs \o Zeros(8 - Len(bs))

RECURSIVE Shr8(_, _)
\* k >> (8*i) for a small natural number k
Shr8(k, i) == IF i = 0 THEN k ELSE Shr8(k \div 256, i - 1)

\* a small natural number (a len()) as a wide integer
ToWide(k) == [i \in 1..8 |-> Shr8(k, i - 1) % 256]

RECURSIVE LtFrom(_, _, _)
LtFrom(a, b, i) ==
    IF i = 0 THEN FALSE
    ELSE IF a[i] # b[i] THEN a[i] < b[i]
    ELSE LtFrom(a, b, i - 1)

\* a < b on wide integers
Lt(a, b) == LtFrom(a, b, 8)

\* 0 <= n < 256^w
FitsIn(n, w) == \A i \in (w + 1)..8 : n[i] = 0

\* struct.pack('<B' | '<H' | '<L' | '<Q', n): w = 1, 2, 4, 8 bytes, unsigned
pack_u(w, n) ==
    IF FitsIn(n, w) THEN Ok(SubSeq(n, 1, w)) ELSE Raise("struct.error")

\* struct.pack('<cH' | '<cL' | '<cQ', c, n): a one-byte char, then pack_u
pack_cu(w, c, n) ==
    IF FitsIn(n, w) THEN Ok(<<c>> \o SubSeq(n, 1, w)) ELSE Raise("struct.error")

\* struct.unpack('<H' | '<L' | '<Q', b)[0]: the buffer must be exactly w bytes
unpack_u(w, b) ==
    IF Len(b) = w THEN Ok(Wide(b)) ELSE Raise("struct.error")

X_fd == Wide(<<253>>)

X_ffff == Wide(<<255, 255>>)

X_ffffffff == Wide(<<255, 255, 255, 255>>)

(***************************************************************************)
(* structs.py: int2varint / varint2int                                     *)
(***************************************************************************)
\* int2varint with inclusive tier tests (n <= 0xffff, n <= 0xffffffff)
int2varint_inclusive(n) ==
    IF Lt(n, X_fd) THEN pack_u(1, n)
    ELSE IF Lt(n, X_ffff) \/ n = X_ffff THEN pack_cu(2, 253, n)
    ELSE IF Lt(n, X_ffffffff) \/ n = X_ffffffff THEN pack_cu(4, 254, n)
    ELSE pack_cu(8, 255, n)

int2varint(n) ==
    IF Lt(n, X_fd) THEN pack_u(1, n)
    ELSE IF Lt(n, X_ffff) THEN pack_cu(2, 253, n)
    ELSE IF Lt(n, X_ffffffff) THEN pack_cu(4, 254, n)
    ELSE pack_cu(8, 255, n)

\* the value of an unpack result paired with a length: (value, length)
WithLength(r, k) == IF r.ok THEN Ok(<<r.val, k>>) ELSE r

\* varint2int reading the 16-bit tier big-endian ('>H' for '<H')
varint2int_bigendian(n) ==
    IF Len(n) = 0 THEN Raise("IndexError")
    ELSE IF n[1] < 253 THEN Ok(<<Wide(<<n[1]>>), 1>>)
    ELSE IF n[1] = 253
        THEN (IF Len(n) >= 3 THEN Ok(<<Wide(<<n[3], n[2]>>), 3>>)
              ELSE Raise("struct.error"))
    ELSE IF n[1] = 254 THEN WithLength(unpack_u(4, Slice(n, 1, 5)), 5)
    ELSE WithLength(unpack_u(8, Slice(n, 1, 9)), 7)

varint2int(n) ==
    IF Len(n) = 0 THEN Raise("IndexError")
    ELSE IF n[1] < 253 THEN Ok(<<Wide(<<n[1]>>), 1>>)
    ELSE IF n[1] = 253 THEN WithLength(unpack_u(2, Slice(n, 1, 3)), 3)
    ELSE IF n[1] = 254 THEN WithLength(unpack_u(4, Slice(n, 1, 5)), 5)
    ELSE WithLength(unpack_u(8, Slice(n, 1, 9)), 7)

(***************************************************************************)
(* structs/Varint.py: class Varint                                         *)
(***************************************************************************)
\* Varint.__len__
Varint_len(n) ==
    IF Lt(n, X_fd) THEN 1
    ELSE IF Lt(n, X_ffff) THEN 3
    ELSE IF Lt(n, X_ffffffff) THEN 5
    ELSE 7

Varint_encode(n) ==
    IF Lt(n, X_fd) THEN pack_u(1, n)
    ELSE IF Lt(n, X_ffff) THEN pack_cu(2, 253, n)
    ELSE IF Lt(n, X_ffffffff) THEN pack_cu(4, 254, n)
    ELSE pack_cu(8, 255, n)

\* the Payload(value, length) named tuple is the pair <<value, length>>
Varint_decode(n) ==
    IF Len(n) = 0 THEN Raise("IndexError")
    ELSE IF n[1] < 253 THEN Ok(<<Wide(<<n[1]>>), 1>>)
    ELSE IF n[1] = 253 THEN WithLength(unpack_u(2, Slice(n, 1, 3)), 3)
    ELSE IF n[1] = 254 THEN WithLength(unpack_u(4, Slice(n, 1, 5)), 5)
    ELSE WithLength(unpack_u(8, Slice(n, 1, 9)), 7)

(***************************************************************************)
(* str.encode('utf-8') and bytes.decode('utf-8') of the Python library.    *)
(***************************************************************************)
\* the UTF-8 bytes of one code point (a Unicode scalar value)
utf8_char(c) ==
    IF c < 128 THEN <<c>>
    ELSE IF c < 2048 THEN <<192 + (c \div 64), 128 + (c % 64)>>
    ELSE IF c < 65536
        THEN <<224 + (c \div 4096), 128 + ((c \div 64) % 64), 128 + (c % 64)>>
    ELSE <<240 + (c \div 262144), 128 + ((c \div 4096) % 64),
           128 + ((c \div 64) % 64), 128 + (c % 64)>>

RECURSIVE utf8_encode_range(_, _, _)
\* the bytes of the characters lo..hi of s, in order
utf8_encode_range(s, lo, hi) ==
    IF lo > hi THEN <<>>
    ELSE IF lo = hi THEN utf8_char(s[lo])
    ELSE utf8_encode_range(s, lo, (lo + hi) \div 2)
         \o utf8_encode_range(s, (lo + hi) \div 2 + 1, hi)

\* s.encode('utf-8')
utf8_encode(s) == utf8_encode_range(s, 1, Len(s))

\* the number of bytes of the sequence a lead byte starts; 0: not a lead byte
utf8_width(b0) ==
    IF b0 < 128 THEN 1
    ELSE IF b0 \in 194..223 THEN 2
    ELSE IF b0 \in 224..239 THEN 3
    ELSE IF b0 \in 240..244 THEN 4
    ELSE 0

\* the range of a well-formed second byte after lead byte b0
utf8_second(b0) ==
    IF b0 = 224 THEN 160..191
    ELSE IF b0 = 237 THEN 128..159
    ELSE IF b0 = 240 THEN 144..191
    ELSE IF b0 = 244 THEN 128..143
    ELSE 128..191

\* the bytes at i..i+w-1 are one well-formed sequence
utf8_wellformed(b, i, w) ==
    /\ w > 0
    /\ i + w - 1 <= Len(b)
    /\ w >= 2 => b[i + 1] \in utf8_second(b[i])
    /\ \A k \in 2..(w - 1) : b[i + k] \in 128..191

\* the code point of the well-formed sequence of w bytes at i
utf8_point(b, i, w) ==
    IF w = 1 THEN b[i]
    ELSE IF w = 2 THEN (b[i] - 192) * 64 + (b[i + 1] - 128)
    ELSE IF w = 3
        THEN (b[i] - 224) * 4096 + (b[i + 1] - 128) * 64 + (b[i + 2] - 128)
    ELSE (b[i] - 240) * 262144 + (b[i + 1] - 128) * 4096
         + (b[i + 2] - 128) * 64 + (b[i + 3] - 128)

\* a continuation byte; every other byte starts a sequence
utf8_cont(x) == x \in 128..191

\* every byte that starts a sequence starts a well-formed one, and the next
\* sequence starts right after it
utf8_valid(b) ==
    /\ Len(b) > 0 => ~utf8_cont(b[1])
    /\ \A i \in 1..Len(b) :
        ~utf8_cont(b[i]) =>
            LET w == utf8_width(b[i]) IN
            /\ utf8_wellformed(b, i, w)
            /\ i + w <= Len(b) => ~utf8_cont(b[i + w])

RECURSIVE utf8_points(_, _, _)
\* the code points of the sequences that start in lo..hi, in order
utf8_points(b, lo, hi) ==
    IF lo > hi THEN <<>>
    ELSE IF lo = hi
        THEN (IF utf8_cont(b[lo]) THEN <<>>
              ELSE <<utf8_point(b, lo, utf8_width(b[lo]))>>)
    ELSE utf8_points(b, lo, (lo + hi) \div 2)
         \o utf8_points(b, (lo + hi) \div 2 + 1, hi)

\* b.decode('utf-8')
utf8_decode(b) ==
    IF utf8_valid(b) THEN Ok(utf8_points(b, 1, Len(b)))
    ELSE Raise("UnicodeDecodeError")

(***************************************************************************)
(* Arithmetic on integers wider than 31 bits.                              *)
(***************************************************************************)
\* the value of a wide integer below 256^3, as a number
Small(n) == n[1] + 256 * n[2] + 65536 * n[3]

RECURSIVE AddFrom(_, _, _, _)
AddFrom(n, carry, i, acc) ==
    IF i > Len(n) THEN (IF carry = 0 THEN acc ELSE Append(acc, carry))
    ELSE AddFrom(n, (n[i] + carry) \div 256, i + 1, Append(acc, (n[i] + carry) % 256))

\* k + n for a small natural number k: Python integers do not wrap, a carry
\* out of the eighth digit adds a ninth
PyAdd(k, n) == AddFrom(n, k, 1, <<>>)

\* s[i:i+n] for a wide integer n: the slice ends at len(s) at the latest
SliceCount(s, i, n) ==
    IF FitsIn(n, 3) THEN Slice(s, i, i + Small(n)) ELSE Slice(s, i, Len(s))

(***************************************************************************)
(* structs.py: str2varstr / varstr2str                                     *)
(***************************************************************************)
str2varstr(s) ==
    LET p == int2varint(ToWide(Len(s))) IN
    IF p.ok THEN Ok(p.val \o utf8_encode(s)) ELSE p

varstr2str(s) ==
    LET r == varint2int(s) IN
    IF ~r.ok THEN r
    ELSE LET n == r.val[1]
             length == r.val[2]
             d == utf8_decode(SliceCount(s, length, n))
         IN  IF d.ok THEN Ok(<<d.val, PyAdd(length, n)>>) ELSE d

(***************************************************************************)
(* structs/Varstr.py: class Varstr                                         *)
(***************************************************************************)
Varstr_encode(s) ==
    LET p == Varint_encode(ToWide(Len(s))) IN
    IF p.ok THEN Ok(p.val \o utf8_encode(s)) ELSE p

\* l is Varint(len(s)), the length of the whole buffer; the Payload(content,
\* length) named tuple is the pair <<content, length>>
Varstr_decode(s) ==
    LET l == ToWide(Len(s))
        d == utf8_decode(Slice(s, Varint_len(l), Varint_len(l) + Len(s)))
    IN  IF d.ok THEN Ok(<<d.val, l>>) ELSE d

(***************************************************************************)
(* socket.inet_aton / socket.inet_ntoa and datetime of the Python library. *)
(* A dotted-quad string is the sequence of its four parts, each part the   *)
(* sequence of its decimal digits: "127.0.0.1" is <<1,2,7>>, <<0>>, <<0>>, *)
(* <<1>>.  A datetime is the instant it names: the whole seconds since the *)
(* epoch, rounded down (a wide integer, the 64-bit two's complement of a   *)
(* negative number for an instant before the epoch), the microseconds      *)
(* 0..999999 past that second, and whether it carries a time zone.         *)
(***************************************************************************)
RECURSIVE DecValue(_, _)
\* the number written by the first k decimal digits of ds
DecValue(ds, k) == IF k = 0 THEN 0 ELSE 10 * DecValue(ds, k - 1) + ds[k]

\* the decimal digits of a number 0..255, without leading zeros
DecDigits(v) ==
    IF v < 10 THEN <<v>>
    ELSE IF v < 100 THEN <<v \div 10, v % 10>>
    ELSE <<v \div 100, (v \div 10) % 10, v % 10>>

\* socket.inet_aton(ip) for a four-part decimal string: four bytes, network order
inet_aton(ip) ==
    IF \A i \in 1..4 : DecValue(ip[i], Len(ip[i])) <= 255
    THEN Ok([i \in 1..4 |-> DecValue(ip[i], Len(ip[i]))])
    ELSE Raise("OSError")

\* socket.inet_ntoa(addr) for four bytes
inet_ntoa(addr) == [i \in 1..4 |-> DecDigits(addr[i])]

\* struct.pack('<q', n): signed, so n must be below 2^63
pack_q(n) ==
    IF n[8] < 128 THEN Ok(n) ELSE Raise("struct.error")

\* struct.pack('>4sH', addr, port): the 4 bytes, then the port big-endian
pack_4sH(addr, port) ==
    IF port \in 0..65535 THEN Ok(addr \o <<port \div 256, port % 256>>)
    ELSE Raise("struct.error")

\* struct.unpack('>4sH', b): the buffer must be exactly 6 bytes
unpack_4sH(b) ==
    IF Len(b) = 6 THEN Ok(<<SubSeq(b, 1, 4), b[5] * 256 + b[6]>>)
    ELSE Raise("struct.error")

(***************************************************************************)
(* structs.py: dt2ts / ts2dt                                               *)
(***************************************************************************)
\* n + 1 on 64-bit two's complement digits: the carry passes the digits 255
Inc64(n) ==
    [i \in 1..8 |-> IF \A j \in 1..(i - 1) : n[j] = 255 THEN (n[i] + 1) % 256 ELSE n[i]]

\* dt2ts(d): int(d.timestamp()).  d.timestamp() is the float sec + us/10^6,
\* exact to the microsecond within 2^34 seconds of the epoch and for us = 0,
\* and int() rounds it toward zero: up, for an instant before the epoch
dt2ts(d) ==
    IF ~d.aware THEN Raise("TypeError")
    ELSE IF d.sec[8] >= 128 /\ d.us > 0 THEN Ok(Inc64(d.sec))
    ELSE Ok(d.sec)

ts2dt(t) == [aware |-> TRUE, sec |-> t, us |-> 0]

(***************************************************************************)
(* structs.py: class netaddr                                               *)
(***************************************************************************)
\* netaddr.__init__: the four attributes
netaddr(ip, port, services, timestamp) ==
    [ip |-> ip, port |-> port, services |-> services, timestamp |-> timestamp]

\* the 12 constant bytes that make the IPv4 address an IPv4-mapped IPv6 one
V4Mapped == Zeros(10) \o <<255, 255>>

netaddr_encode(self) ==
    LET ts == IF self.timestamp # None THEN dt2ts(self.timestamp) ELSE Ok(None)
        p1 == IF self.timestamp = None THEN Ok(<<>>)
              ELSE IF ts.ok THEN pack_u(4, ts.val) ELSE ts
        p2 == pack_q(self.services)
        a  == inet_aton(self.ip)
        p4 == IF a.ok THEN pack_4sH(a.val, self.port) ELSE a
    IN  IF ~p1.ok THEN p1
        ELSE IF ~p2.ok THEN p2
        ELSE IF ~p4.ok THEN p4
        ELSE Ok(p1.val \o p2.val \o V4Mapped \o p4.val)

\* the dict of parsed fields is the record of the four attributes
netaddr_decode(n) ==
    IF ~(Len(n) = 26 \/ Len(n) = 30) THEN Raise("AssertionError")
    ELSE LET t    == unpack_u(4, Slice(n, 0, 4))
             rest == IF Len(n) # 26 THEN Slice(n, 4, Len(n)) ELSE n
             s    == unpack_u(8, Slice(rest, 0, 8))
             ap   == unpack_4sH(Tail_(rest, 6))
         IN  IF Len(n) # 26 /\ ~t.ok THEN t
             ELSE IF ~s.ok THEN s
             ELSE IF ~ap.ok THEN ap
             ELSE Ok(netaddr(inet_ntoa(ap.val[1]), ap.val[2], s.val,
                             IF Len(n) # 26 THEN ts2dt(t.val) ELSE None))

\* netaddr.from_raw: cls(**cls.decode(buf))
netaddr_from_raw(buf) == netaddr_decode(buf)

(***************************************************************************)
(* structs/Netaddr.py: class Netaddr, a named tuple (ip, port, services)   *)
(***************************************************************************)
Netaddr(ip, port, services) == [ip |-> ip, port |-> port, services |-> services]

Netaddr_encode(self) ==
    LET p2 == pack_q(self.services)
        a  == inet_aton(self.ip)
        p4 == IF a.ok THEN pack_4sH(a.val, self.port) ELSE a
    IN  IF ~p2.ok THEN p2
        ELSE IF ~p4.ok THEN p4
        ELSE Ok(p2.val \o V4Mapped \o p4.val)

Netaddr_decode(n) ==
    LET s  == unpack_u(8, Slice(n, 0, 8))
        ap == unpack_4sH(Tail_(n, 6))
    IN  IF ~s.ok THEN s
        ELSE IF ~ap.ok THEN ap
        ELSE Ok(Netaddr(inet_ntoa(ap.val[1]), ap.val[2], s.val))

(***************************************************************************)
(* hashlib.sha256 of the Python library (FIPS 180-4).  A 32-bit word is    *)
(* the pair <<high, low>> of its 16-bit halves.                            *)
(***************************************************************************)
RECURSIVE BitXor(_, _, _)
\* a XOR b on the k low bits
BitXor(a, b, k) ==
    IF k = 0 THEN 0 ELSE ((a + b) % 2) + 2 * BitXor(a \div 2, b \div 2, k - 1)

RECURSIVE BitAnd(_, _, _)
\* a AND b on the k low bits
BitAnd(a, b, k) ==
    IF k = 0 THEN 0 ELSE ((a % 2) * (b % 2)) + 2 * BitAnd(a \div 2, b \div 2, k - 1)

\* the two operations on bytes, tabulated
XorTab == [a \in 0..255 |-> [b \in 0..255 |-> BitXor(a, b, 8)]]

AndTab == [a \in 0..255 |-> [b \in 0..255 |-> BitAnd(a, b, 8)]]

Xor16(a, b) == XorTab[a \div 256][b \div 256] * 256 + XorTab[a % 256][b % 256]

And16(a, b) == AndTab[a \div 256][b \div 256] * 256 + AndTab[a % 256][b % 256]

WXor(a, b) == <<Xor16(a[1], b[1]), Xor16(a[2], b[2])>>

WAnd(a, b) == <<And16(a[1], b[1]), And16(a[2], b[2])>>

WNot(a) == <<65535 - a[1], 65535 - a[2]>>

\* addition modulo 2^32
WAdd(a, b) ==
    LET lo == a[2] + b[2] IN
    <<(a[1] + b[1] + (lo \div 65536)) % 65536, lo % 65536>>

Pow2 == [k \in 0..16 |-> 2^k]

\* rotate right by n bits, 0 < n < 16
Rot16(a, n) ==
    << (a[1] \div Pow2[n]) + (a[2] % Pow2[n]) * Pow2[16 - n],
       (a[2] \div Pow2[n]) + (a[1] % Pow2[n]) * Pow2[16 - n] >>

\* rotate right by n bits, 0 < n < 32
RotR(a, n) ==
    IF n = 16 THEN <<a[2], a[1]>>
    ELSE IF n < 16 THEN Rot16(a, n)
    ELSE Rot16(<<a[2], a[1]>>, n - 16)

\* shift right by n bits, 0 < n < 16
ShR(a, n) ==
    << a[1] \div Pow2[n], (a[2] \div Pow2[n]) + (a[1] % Pow2[n]) * Pow2[16 - n] >>

\* the round constants: the fractional parts of the cube roots of the first
\* 64 primes
Sha256K == <<
    <<17034, 12184>>, <<28983, 17553>>, <<46528, 64463>>, <<59829, 56229>>,
    <<14678, 49755>>, <<23025, 4593>>, <<37439, 33444>>, <<43804, 24277>>,
    <<55303, 43672>>, <<4739, 23297>>, <<9265, 34238>>, <<21772, 32195>>,
    <<29374, 23924>>, <<32990, 45566>>, <<39900, 1703>>, <<49563, 61812>>,
    <<58523, 27073>>, <<61374, 18310>>, <<4033, 40390>>, <<9228, 41420>>,
    <<11753, 11375>>, <<19060, 33962>>, <<23728, 43484>>, <<30457, 35034>>,
    <<38974, 20818>>, <<43057, 50797>>, <<45059, 10184>>, <<48985, 32711>>,
    <<50912, 3059>>, <<54695, 37191>>, <<1738, 25425>>, <<5161, 10599>>,
    <<10167, 2693>>, <<11803, 8504>>, <<19756, 28156>>, <<21304, 3347>>,
    <<25866, 29524>>, <<30314, 2747>>, <<33218, 51502>>, <<37490, 11397>>,
    <<41663, 59553>>, <<43034, 26187>>, <<49739, 35696>>, <<51052, 20899>>,
    <<53650, 59417>>, <<54937, 1572>>, <<62478, 13701>>, <<4202, 41072>>,
    <<6564, 49430>>, <<7735, 27656>>, <<10056, 30540>>, <<13488, 48309>>,
    <<14620, 3251>>, <<20184, 43594>>, <<23452, 51791>>, <<26670, 28659>>,
    <<29839, 33518>>, <<30885, 25455>>, <<33992, 30740>>, <<36039, 520>>,
    <<37054, 65530>>, <<42064, 27883>>, <<48889, 41975>>, <<50801, 30962>> >>

\* the initial hash value: the fractional parts of the square roots of the
\* first 8 primes
Sha256H0 == <<
    <<27145, 58983>>, <<47975, 44677>>, <<15470, 62322>>, <<42319, 62778>>,
    <<20750, 21119>>, <<39685, 26764>>, <<8067, 55723>>, <<23520, 52505>> >>

BigSigma0(a) == WXor(WXor(RotR(a, 2), RotR(a, 13)), RotR(a, 22))

BigSigma1(e) == WXor(WXor(RotR(e, 6), RotR(e, 11)), RotR(e, 25))

SmallSigma0(w) == WXor(WXor(RotR(w, 7), RotR(w, 18)), ShR(w, 3))

SmallSigma1(w) == WXor(WXor(RotR(w, 17), RotR(w, 19)), ShR(w, 10))

Ch(e, f, g) == WXor(WAnd(e, f), WAnd(WNot(e), g))

Maj(a, b, c) == WXor(WXor(WAnd(a, b), WAnd(a, c)), WAnd(b, c))

RECURSIVE Schedule(_)
\* the message schedule: 16 words of the block extended to 64
Schedule(w) ==
    IF Len(w) >= 64 THEN w
    ELSE LET t == Len(w) + 1 IN
         Schedule(Append(w, WAdd(WAdd(SmallSigma1(w[t - 2]), w[t - 7]),
                                 WAdd(SmallSigma0(w[t - 15]), w[t - 16]))))

\* one round on the eight working variables v = <<a, b, c, d, e, f, g, h>>
Round(v, wt, kt) ==
    LET t1 == WAdd(WAdd(WAdd(v[8], BigSigma1(v[5])),
                        WAdd(Ch(v[5], v[6], v[7]), kt)), wt)
        t2 == WAdd(BigSigma0(v[1]), Maj(v[1], v[2], v[3]))
    IN  <<WAdd(t1, t2), v[1], v[2], v[3], WAdd(v[4], t1), v[5], v[6], v[7]>>

RECURSIVE Rounds(_, _, _)
\* rounds t..64; reading Len(v) evaluates each round's result before the next
Rounds(v, w, t) ==
    IF t > 64 \/ Len(v) # 8 THEN v
    ELSE Rounds(Round(v, w[t], Sha256K[t]), w, t + 1)

\* the compression function on one 64-byte block
Compress(h, blk) ==
    LET w == Schedule([i \in 1..16 |->
                 <<blk[4*i - 3] * 256 + blk[4*i - 2], blk[4*i - 1] * 256 + blk[4*i]>>])
        v == Rounds(h, w, 1)
    IN  [i \in 1..8 |-> WAdd(h[i], v[i])]

\* the padded message: 0x80, zero bytes up to 56 modulo 64, and the length in
\* bits as a 64-bit big-endian number (messages are shorter than 2^21 bytes)
Pad(m) ==
    LET n == Len(m)
        bits == n * 8
    IN  m \o <<128>> \o Zeros((119 - (n % 64)) % 64)
          \o <<0, 0, 0, 0, 0, (bits \div 65536) % 256, (bits \div 256) % 256, bits % 256>>

RECURSIVE Blocks(_, _, _)
Blocks(h, p, i) ==
    IF i > Len(p) THEN h ELSE Blocks(Compress(h, SubSeq(p, i, i + 63)), p, i + 64)

RECURSIVE Digest(_, _)
\* the 32 bytes of the eight words, big-endian
Digest(h, i) ==
    IF i > 8 THEN <<>>
    ELSE <<h[i][1] \div 256, h[i][1] % 256, h[i][2] \div 256, h[i][2] % 256>>
         \o Digest(h, i + 1)

\* hashlib.sha256(m).digest()
sha256(m) == Digest(Blocks(Sha256H0, Pad(m), 1), 1)

(***************************************************************************)
(* structs/__init__.py: dsha256                                            *)
(***************************************************************************)
dsha256(p) == sha256(sha256(p))

(***************************************************************************)
(* Values and library calls used by the messages.  An optional argument   *)
(* is None when it was not given and Some(v) when it was; a payload is a   *)
(* record: None, the empty dict, raw bytes Bytes(b), or a dict of fields.  *)
(***************************************************************************)
Some(v) == [some |-> v]

EmptyDict == [dict |-> <<>>]

Bytes(b) == [bytes |-> b]

\* bool(x) is False for a payload x: None, {} and b'' are falsy
Falsy(x) == x = None \/ x = EmptyDict \/ x = Bytes(<<>>)

\* struct.pack('<ks', b): b cut to k bytes, or filled up with null bytes
pack_s(k, b) == Slice(b, 0, k) \o Zeros(k - Len(Slice(b, 0, k)))

\* struct.pack('<L', k) for a number k: unsigned, so k must not be negative
pack_L(k) == IF k < 0 THEN Raise("struct.error") ELSE pack_u(4, ToWide(k))

\* struct.pack('<?', b)
pack_bool(b) == IF b THEN <<1>> ELSE <<0>>

\* str.lower() on ASCII letters (the commands modelled are ASCII)
str_lower(s) == [i \in 1..Len(s) |-> IF s[i] \in 65..90 THEN s[i] + 32 ELSE s[i]]

NotNull(x) == x # 0

\* b.replace(b'\x00', b''): every null byte removed
strip_nulls(b) == SelectSeq(b, NotNull)

\* x.decode('utf-8') for a str x: a str has no decode method
str_decode(x) == Raise("AttributeError")

\* bytes(x) for a payload x: the bytes themselves, b'' for {}; None and a dict
\* with str keys raise TypeError
py_bytes(x) ==
    IF x = EmptyDict THEN Ok(<<>>)
    ELSE IF "bytes" \in DOMAIN x THEN Ok(x.bytes)
    ELSE Raise("TypeError")

\* second 253402300800 is 10000-01-01T00:00:00Z
X_year10000 == Wide(<<128, 65, 244, 255, 58>>)

\* second -62135596800, 0001-01-01T00:00:00Z, as a 64-bit two's complement
X_year1 == <<0, 9, 110, 136, 241, 255, 255, 255>>

\* datetime.fromtimestamp(t, timezone.utc) returns for a signed 64-bit t (its
\* two's-complement digits) within years 1..9999, and raises otherwise
InDatetimeRange(t) ==
    IF t[8] < 128 THEN Lt(t, X_year10000) ELSE ~Lt(t, X_year1)

(***************************************************************************)
(* structs.socket2netaddr / structs.netaddr2socket: called by the messages *)
(* and absent from the sources; modelled on the NetAddr layout of the      *)
(* specification.  A socket address is its ipaddr, port, services and      *)
(* optional timestamp.                                                     *)
(***************************************************************************)
Socket(ipaddr, port, services, timestamp) ==
    [ipaddr |-> ipaddr, port |-> port, services |-> services, timestamp |-> timestamp]

\* [timestamp:4]? services:8, 10 zero bytes, ff ff, ipv4:4, port:2 (network order)
socket2netaddr(s, with_ts) ==
    LET ts == IF s.timestamp # None THEN dt2ts(s.timestamp) ELSE Ok(None)
        p1 == IF ~with_ts \/ s.timestamp = None THEN Ok(<<>>)
              ELSE IF ts.ok THEN pack_u(4, ts.val) ELSE ts
        p2 == pack_u(8, s.services)
        a  == inet_aton(s.ipaddr)
        p4 == IF a.ok THEN pack_4sH(a.val, s.port) ELSE a
    IN  IF ~p1.ok THEN p1
        ELSE IF ~p2.ok THEN p2
        ELSE IF ~p4.ok THEN p4
        ELSE Ok(p1.val \o p2.val \o V4Mapped \o p4.val)

\* the timestamp is present in the 30-byte form and absent in the 26-byte form
netaddr2socket(raw) ==
    IF ~(Len(raw) = 26 \/ Len(raw) = 30) THEN Raise("InvalidLength")
    ELSE LET rest == Tail_(raw, 26) IN
         Ok(Socket(inet_ntoa(SubSeq(rest, 21, 24)), rest[25] * 256 + rest[26],
                   Wide(SubSeq(rest, 1, 8)),
                   IF Len(raw) = 30 THEN ts2dt(Wide(SubSeq(raw, 1, 4))) ELSE None))

(***************************************************************************)
(* messages/Message.py: the frame.  The class attributes VERSION and MAGIC *)
(* are read when a method runs, so they are handed to it as V and M.       *)
(***************************************************************************)
\* Message.VERSION
Message_VERSION == 70001

\* Message.MAGIC
Message_MAGIC == 0

\* struct.calcsize(Message.HEADER_FMT) for '<L12sL4s'
HeaderLen == 24

\* struct.calcsize of Version.MESSAGE_FMT '<LQq26s26sQ{ua_len}sL?' without
\* the user agent
VersionFixedLen == 85

\* Version.USER_AGENT: 'coinflow analyzer 0.0.1'
USER_AGENT ==
    <<99, 111, 105, 110, 102, 108, 111, 119, 32, 97, 110, 97, 108, 121, 122,
      101, 114, 32, 48, 46, 48, 46, 49>>

\* the classes: the abstract Message of the package messages/, its
\* subclasses Version, Verack and Addr, and the concrete Message of messages.py
Classes == {"Message", "Version", "Verack", "Addr", "messages.py:Message"}

(***************************************************************************)
(* messages/Version.py: the payload codec of Version                       *)
(***************************************************************************)
\* user_agent or self.USER_AGENT: None and '' are falsy
UserAgentOr(user_agent, default) ==
    IF user_agent = None THEN default
    ELSE IF user_agent.some = <<>> THEN default
    ELSE user_agent.some

\* Version.encode_payload(self, payload); V is self.VERSION
Version_encode_payload(V, p) ==
    IF p = EmptyDict THEN Raise("KeyError")
    ELSE IF ~("user_agent" \in DOMAIN p) THEN Raise("TypeError")
    ELSE
    LET user_agent == UserAgentOr(p.user_agent, USER_AGENT)
        ua == str2varstr(user_agent)
        ts == dt2ts(p.timestamp)
        ar == socket2netaddr(p.addr_recv, FALSE)
        af == socket2netaddr(p.addr_from, FALSE)
        v  == pack_u(4, V)
        sv == pack_u(8, p.services)
        t  == IF ts.ok THEN pack_q(ts.val) ELSE ts
        nn == pack_u(8, p.nonce)
        sh == pack_L(p.start_height)
    IN  IF ~ua.ok THEN ua
        ELSE IF ~ts.ok THEN ts
        ELSE IF ~ar.ok THEN ar
        ELSE IF ~af.ok THEN af
        ELSE IF ~v.ok THEN v
        ELSE IF ~sv.ok THEN sv
        ELSE IF ~t.ok THEN t
        ELSE IF ~nn.ok THEN nn
        ELSE IF ~sh.ok THEN sh
        ELSE Ok(v.val \o sv.val \o t.val \o pack_s(26, ar.val) \o pack_s(26, af.val)
                \o nn.val \o ua.val \o sh.val \o pack_bool(p.relay))

\* Version.decode_payload_raw(payload): the user agent takes every byte the
\* fixed fields leave, and is a (str, length) pair after varstr2str
Version_decode_payload_raw(payload) ==
    IF Len(payload) < VersionFixedLen THEN Raise("struct.error")
    ELSE
    LET ua_len == Len(payload) - VersionFixedLen
        t  == SubSeq(payload, 13, 20)
        ar == netaddr2socket(SubSeq(payload, 21, 46))
        af == netaddr2socket(SubSeq(payload, 47, 72))
        ua == varstr2str(Slice(payload, 80, 80 + ua_len))
    IN  IF ~InDatetimeRange(t) THEN Raise("ValueError")
        ELSE IF ~ar.ok THEN ar
        ELSE IF ~af.ok THEN af
        ELSE IF ~ua.ok THEN ua
        ELSE Ok([version      |-> Wide(SubSeq(payload, 1, 4)),
                 services     |-> SubSeq(payload, 5, 12),
                 timestamp    |-> ts2dt(t),
                 addr_recv    |-> ar.val,
                 addr_from    |-> af.val,
                 nonce        |-> SubSeq(payload, 73, 80),
                 user_agent   |-> ua.val,
                 start_height |-> Wide(SubSeq(payload, 81 + ua_len, 84 + ua_len)),
                 relay        |-> payload[85 + ua_len] # 0])

\* Version.decode_payload(payload): the addresses become (ipaddr, port) pairs,
\* the user agent the str of its pair, on which decode('utf-8') is called
Version_decode_payload(payload) ==
    LET parsed == Version_decode_payload_raw(payload) IN
    IF ~parsed.ok THEN parsed
    ELSE LET ua == str_decode(parsed.val.user_agent[1]) IN
         IF ~ua.ok THEN ua
         ELSE Ok([parsed.val EXCEPT
                    !.addr_recv = <<parsed.val.addr_recv.ipaddr, parsed.val.addr_recv.port>>,
                    !.addr_from = <<parsed.val.addr_from.ipaddr, parsed.val.addr_from.port>>,
                    !.user_agent = ua.val])

(***************************************************************************)
(* messages/Verack.py: the payload codec of Verack                         *)
(***************************************************************************)
\* Verack.encode_payload with the payload written into the frame
Verack_encode_payload_written(payload) ==
    IF Falsy(payload) THEN Ok(<<>>) ELSE py_bytes(payload)

Verack_encode_payload(payload) == Ok(<<>>)

Verack_decode_payload(payload) == Ok(EmptyDict)

(***************************************************************************)
(* messages/Addr.py: the payload codec of Addr.  An entry of the list is a *)
(* record of its timestamp and its addr, a socket address.                 *)
(***************************************************************************)
\* struct.pack('<L26s', dt2ts(a['timestamp']), socket2netaddr(*a['addr']))
Addr_pack_entry(a) ==
    LET ts == dt2ts(a.timestamp)
        t  == IF ts.ok THEN pack_u(4, ts.val) ELSE ts
        n  == socket2netaddr(a.addr, FALSE)
    IN  IF ~ts.ok THEN ts
        ELSE IF ~n.ok THEN n
        ELSE IF ~t.ok THEN t
        ELSE Ok(t.val \o pack_s(26, n.val))

\* Addr.encode_payload(self, payload): the count, then the entries one after
\* another in the order of the list; the first entry that fails raises
Addr_encode_payload(self_payload, payload) ==
    LET p == IF Falsy(payload) THEN self_payload ELSE payload IN
    IF p = EmptyDict THEN Raise("KeyError")
    ELSE IF ~("addr_list" \in DOMAIN p) THEN Raise("TypeError")
    ELSE
    LET n      == Len(p.addr_list)
        prefix == int2varint(ToWide(n))
        packed == [k \in 1..n |-> Addr_pack_entry(p.addr_list[k])]
        failed == { k \in 1..n : ~packed[k].ok }
    IN  IF ~prefix.ok THEN prefix
        ELSE IF failed # {} THEN packed[CHOOSE k \in failed : \A j \in failed : k <= j]
        ELSE Ok([i \in 1..(Len(prefix.val) + 30 * n) |->
                   IF i <= Len(prefix.val) THEN prefix.val[i]
                   ELSE packed[((i - Len(prefix.val) - 1) \div 30) + 1].val
                              [((i - Len(prefix.val) - 1) % 30) + 1]])

\* one pass of the loop of Addr.decode_payload: struct.unpack('<L26s', addr),
\* and the socket address without its timestamp
Addr_unpack_entry(addr) ==
    LET sock == netaddr2socket(SubSeq(addr, 5, 30)).val IN
    [timestamp |-> ts2dt(Wide(SubSeq(addr, 1, 4))),
     addr      |-> [ipaddr |-> sock.ipaddr, port |-> sock.port,
                    services |-> sock.services]]

\* Addr.decode_payload(payload): payload[i:i+30] for i in range(prefix,
\* addr_len*30, 30), the prefix being the length varint2int returns;
\* struct.unpack raises on the first slice shorter than 30 bytes
Addr_decode_payload(payload) ==
    LET r == varint2int(payload) IN
    IF ~r.ok THEN r
    ELSE
    LET addr_len == r.val[1]
        prefix   == r.val[2]
    IN  IF addr_len = Zeros(8) THEN Ok([addr_list |-> <<>>])
        ELSE IF ~FitsIn(addr_len, 3) THEN Raise("struct.error")
        ELSE IF prefix + 30 * Small(addr_len) > Len(payload) THEN Raise("struct.error")
        ELSE Ok([addr_list |->
                   [k \in 1..Small(addr_len) |->
                      Addr_unpack_entry(Slice(payload, prefix + 30 * (k - 1),
                                              prefix + 30 * k))]])

(***************************************************************************)
(* messages.py: the payload codec of the concrete Message                  *)
(***************************************************************************)
\* Message.encode_payload of messages.py: bytes(payload or self.payload), and
\* b'' when bytes() raises TypeError
messages_py_encode_payload(self_payload, payload) ==
    LET b == py_bytes(IF Falsy(payload) THEN self_payload ELSE payload) IN
    IF b.ok THEN b ELSE Ok(<<>>)

\* Message.decode_payload of messages.py: the bytes as they are
messages_py_decode_payload(payload) == Ok(Bytes(payload))

(***************************************************************************)
(* messages/Message.py: class Message                                      *)
(***************************************************************************)
\* cls.encode_payload(payload) of an object of class cls; the abstract
\* Message.encode_payload returns b''
encode_payload(cls, V, self_payload, payload) ==
    IF cls = "Version" THEN Version_encode_payload(V, payload)
    ELSE IF cls = "Verack" THEN Verack_encode_payload(payload)
    ELSE IF cls = "Addr" THEN Addr_encode_payload(self_payload, payload)
    ELSE IF cls = "messages.py:Message"
        THEN messages_py_encode_payload(self_payload, payload)
    ELSE Ok(<<>>)

\* cls.decode_payload(payload); the abstract Message.decode_payload returns None
decode_payload(cls, payload) ==
    IF cls = "Version" THEN Version_decode_payload(payload)
    ELSE IF cls = "Verack" THEN Verack_decode_payload(payload)
    ELSE IF cls = "Addr" THEN Addr_decode_payload(payload)
    ELSE IF cls = "messages.py:Message" THEN messages_py_decode_payload(payload)
    ELSE Ok(None)

\* magic or self.MAGIC: None and 0 are falsy
MagicOr(magic, M) ==
    IF magic = None THEN M
    ELSE IF magic.some = Zeros(8) THEN M
    ELSE magic.some

\* checksum or dsha256(enc)[0:4]: None and b'' are falsy
ChecksumOr(checksum, enc) ==
    IF checksum # None /\ checksum.some # <<>> THEN checksum.some
    ELSE Slice(dsha256(enc), 0, 4)

\* Message.__init__(self, command, payload, magic, checksum) for an object of
\* class cls.  The abstract Message cannot be instantiated.  messages.py
\* keeps the payload as given and the command as bytes.
Message_init(cls, V, M, command, payload, magic, checksum) ==
    IF cls = "Message" THEN Raise("TypeError")
    ELSE
    LET self_payload == IF cls # "messages.py:Message" /\ Falsy(payload)
                        THEN EmptyDict ELSE payload
        enc == encode_payload(cls, V, self_payload, payload)
    IN  IF ~enc.ok THEN enc
        ELSE Ok([cls      |-> cls,
                 MAGIC    |-> MagicOr(magic, M),
                 command  |-> IF cls = "messages.py:Message"
                              THEN utf8_encode(str_lower(command))
                              ELSE str_lower(command),
                 payload  |-> self_payload,
                 checksum |-> ChecksumOr(checksum, enc.val)])

\* a write of the class attribute in the place of the instance attribute
Message_init_class_MAGIC_rebound(M, magic) == MagicOr(magic, M)

\* the class attribute MAGIC after Message.__init__: self.MAGIC = ... binds
\* an attribute of the instance, the attribute of the class is left as it is
Message_init_class_MAGIC(M, magic) == M

\* struct.pack('<L12sL4s', magic, command, length, checksum)
pack_header(magic, command, length, checksum) ==
    LET m == pack_u(4, magic) IN
    IF ~m.ok THEN m
    ELSE Ok(m.val \o pack_s(12, command) \o SubSeq(ToWide(length), 1, 4)
            \o pack_s(4, checksum))

\* Message.__bytes__ writing the size of the whole frame as the length
Message_bytes_frame_length(self, V) ==
    LET payload == encode_payload(self.cls, V, self.payload, self.payload) IN
    IF ~payload.ok THEN payload
    ELSE LET h == pack_header(self.MAGIC,
                              IF self.cls = "messages.py:Message" THEN self.command
                              ELSE utf8_encode(self.command),
                              HeaderLen + Len(payload.val), self.checksum)
         IN  IF ~h.ok THEN h ELSE Ok(h.val \o payload.val)

\* Message.__bytes__ / Message.encode
Message_bytes(self, V) ==
    LET payload == encode_payload(self.cls, V, self.payload, self.payload) IN
    IF ~payload.ok THEN payload
    ELSE LET h == pack_header(self.MAGIC,
                              IF self.cls = "messages.py:Message" THEN self.command
                              ELSE utf8_encode(self.command),
                              Len(payload.val), self.checksum)
         IN  IF ~h.ok THEN h ELSE Ok(h.val \o payload.val)

\* len(b) for the bytes a call returned; an exception of the call is passed on
len_(b) == IF ~b.ok THEN b ELSE Ok(Len(b.val))

\* Message.__len__: len(self.encode_payload()), the payload argument left
\* out; Version.encode_payload has no default for it
Message_len(self, V) ==
    IF self.cls = "Version" THEN Raise("TypeError")
    ELSE len_(encode_payload(self.cls, V, self.payload, None))

\* the second statement of Message.__bytes__: the header packed for the
\* payload bytes the first statement made, and the payload
Message_bytes_pack(self, payload) ==
    LET h == pack_header(self.MAGIC,
                         IF self.cls = "messages.py:Message" THEN self.command
                         ELSE utf8_encode(self.command),
                         Len(payload), self.checksum)
    IN  IF ~h.ok THEN h ELSE Ok(h.val \o payload)

\* the dict of Message.decode: the header fields, the command as str, and
\* the decoded payload; the payload is decoded first
Message_parsed(hdr, payload, command) ==
    IF ~payload.ok THEN payload
    ELSE IF ~command.ok THEN command
    ELSE Ok([magic    |-> Wide(SubSeq(hdr, 1, 4)),
             command  |-> command.val,
             length   |-> Wide(SubSeq(hdr, 17, 20)),
             checksum |-> SubSeq(hdr, 21, 24),
             payload  |-> payload.val])

\* Message.decode(cls, buf): struct.unpack needs the 24 bytes of buf[:h_len];
\* the payload codec is handed buf[h_len:]
Message_decode(cls, buf) ==
    IF Len(buf) < HeaderLen THEN Raise("struct.error")
    ELSE Message_parsed(Slice(buf, 0, HeaderLen),
                        decode_payload(cls, Slice(buf, HeaderLen, Len(buf))),
                        utf8_decode(strip_nulls(SubSeq(buf, 5, 16))))

\* Message.from_raw(cls, buf), its second statement: return cls(**parsed),
\* parsed being what cls.decode(buf) returned or raised.  The keys of the
\* dict are magic,
\* command, length, checksum and payload.  The abstract Message cannot be
\* instantiated; Version and Addr miss their positional arguments; Verack
\* hands 'verack' to Message.__init__ and gets command a second time;
\* Message.__init__ of messages.py takes the four it names, length goes
\* to **kwargs; an exception of decode is passed on
from_parsed(cls, V, M, parsed) ==
    IF ~parsed.ok THEN parsed
    ELSE IF cls = "messages.py:Message"
    THEN Message_init(cls, V, M, parsed.val.command, parsed.val.payload,
                      Some(parsed.val.magic), Some(parsed.val.checksum))
    ELSE Raise("TypeError")

\* Version.__init__: the version argument is not used, the payload carries
\* self.VERSION
Version_init(V, M, a, magic, checksum) ==
    Message_init("Version", V, M, <<118, 101, 114, 115, 105, 111, 110>>,
                 [version      |-> V,
                  services     |-> a.services,
                  timestamp    |-> a.timestamp,
                  addr_recv    |-> a.addr_recv,
                  addr_from    |-> a.addr_from,
                  nonce        |-> a.nonce,
                  relay        |-> a.relay,
                  user_agent   |-> a.user_agent,
                  start_height |-> a.start_height],
                 magic, checksum)

\* Verack.__init__: command 'verack', payload None
Verack_init(V, M, magic, checksum) ==
    Message_init("Verack", V, M, <<118, 101, 114, 97, 99, 107>>, None, magic, checksum)

\* Addr.__init__: command 'addr', payload {'addr_list': addr_list}
Addr_init(V, M, addr_list, magic, checksum) ==
    Message_init("Addr", V, M, <<97, 100, 100, 114>>, [addr_list |-> addr_list],
                 magic, checksum)

(***************************************************************************)
(* structs/Struct.py: the base class of Varint, Varstr, Netaddr and        *)
(* Timestamp.  An object is its class, its value and the attributes set on *)
(* it; a call returns its result and the object it leaves.                 *)
(***************************************************************************)
Struct(cls, value) == [cls |-> cls, value |-> value, attrs |-> {}]

\* an object.__setattr__ in the place of Struct.__setattr__
Struct_setattr_assigned(self, name, value) ==
    [result |-> Ok(None),
     self   |-> [self EXCEPT !.attrs = {a \in @ : a[1] # name} \cup {<<name, value>>}]]

\* Struct.__setattr__(self, *args): raises TypeError
Struct_setattr(self, name, value) ==
    [result |-> Raise("TypeError"), self |-> self]

\* Struct.__delattr__(self, *args): raises TypeError
Struct_delattr(self, name) ==
    [result |-> Raise("TypeError"), self |-> self]

(***************************************************************************)
(* Inputs.                                                                 *)
(***************************************************************************)
\* the digits the sampled integers are built from
DigitSample == {0, 253, 255}

\* the tier boundaries and their neighbours, written out
Boundaries ==
    { Wide(<<>>), Wide(<<1>>), Wide(<<252>>), Wide(<<253>>), Wide(<<254>>),
      Wide(<<255>>), Wide(<<0, 1>>), Wide(<<254, 255>>), Wide(<<255, 255>>),
      Wide(<<0, 0, 1>>), Wide(<<254, 255, 255, 255>>),
      Wide(<<255, 255, 255, 255>>), Wide(<<0, 0, 0, 0, 1>>),
      Wide(<<0, 0, 0, 0, 0, 0, 0, 128>>),
      Wide(<<255, 255, 255, 255, 255, 255, 255, 127>>),
      Wide(<<255, 255, 255, 255, 255, 255, 255, 255>>) }

\* integers of 0..2^64-1: every combination of the sampled digits, and the boundaries
IntSample == [1..8 -> DigitSample] \cup Boundaries

\* code points of 1, 2, 3 and 4 UTF-8 bytes: a, e-acute, the euro sign, an emoji
CharSample == {97, 233, 8364, 128512}

\* the lengths of the long strings: around the one-byte tier's end, and over 1000
LongLens == {252, 253, 1001}

StrSample ==
    UNION { [1..k -> CharSample] : k \in 0..MaxStrLen }
    \cup { [i \in 1..k |-> c] : k \in LongLens, c \in {97, 233} }

\* the bytes the raw VarStr buffers are built from: prefixes 0, 1, 2 and 0xfd,
\* the letter a, and the two bytes of e-acute (0xc3 0xa9)
RawByteSample == {0, 1, 2, 97, 169, 195, 253}

RawVarstrSample == UNION { [1..k -> RawByteSample] : k \in 0..MaxBufLen }

\* "0.0.0.0", "127.0.0.1", "192.168.1.10", "255.255.255.255", "10.0.253.9"
IpSample ==
    { << <<0>>, <<0>>, <<0>>, <<0>> >>,
      << <<1, 2, 7>>, <<0>>, <<0>>, <<1>> >>,
      << <<1, 9, 2>>, <<1, 6, 8>>, <<1>>, <<1, 0>> >>,
      << <<2, 5, 5>>, <<2, 5, 5>>, <<2, 5, 5>>, <<2, 5, 5>> >>,
      << <<1, 0>>, <<0>>, <<2, 5, 3>>, <<9>> >> }

PortSample == {0, 8333, 65535}

\* service bitfields of 0..2^64-1: 0, 1, 0x409, 2^63-1, 2^63, 2^64-1
ServicesSample ==
    { Wide(<<>>), Wide(<<1>>), Wide(<<9, 4>>),
      Wide(<<255, 255, 255, 255, 255, 255, 255, 127>>),
      Wide(<<0, 0, 0, 0, 0, 0, 0, 128>>),
      Wide(<<255, 255, 255, 255, 255, 255, 255, 255>>) }

\* timestamps of the data model: none, or a time-zone-aware datetime of whole
\* seconds 0, 1, 2^31, 2^32-1 after the epoch
U32TimestampSample ==
    { None } \cup
    { [aware |-> TRUE, sec |-> s, us |-> 0] :
        s \in { Wide(<<>>), Wide(<<1>>), Wide(<<0, 0, 0, 128>>),
                Wide(<<255, 255, 255, 255>>) } }

\* and datetimes outside it: a naive one, and second 2^32
TimestampSample ==
    U32TimestampSample \cup
    { [aware |-> FALSE, sec |-> Wide(<<1>>), us |-> 0],
      [aware |-> TRUE, sec |-> Wide(<<0, 0, 0, 0, 1>>), us |-> 0] }

\* datetimes handed to dt2ts: naive and aware, of the seconds 0, 1, 2^31 and
\* 2^32-1 after the epoch and 1, 2, 2^31 and 315619200 (1960-01-01) before
\* it, on the second and 1, 500000 and 999999 microseconds past it
DatetimeSample ==
    { [aware |-> a, sec |-> s, us |-> u] :
        a \in BOOLEAN,
        s \in { Wide(<<>>), Wide(<<1>>), Wide(<<0, 0, 0, 128>>),
                Wide(<<255, 255, 255, 255>>),
                <<255, 255, 255, 255, 255, 255, 255, 255>>,
                <<254, 255, 255, 255, 255, 255, 255, 255>>,
                <<0, 0, 0, 128, 255, 255, 255, 255>>,
                <<128, 8, 48, 237, 255, 255, 255, 255>> },
        u \in { 0, 1, 500000, 999999 } }

\* raw buffers of every length up to MaxRawLen, of four byte patterns
RawNetaddrSample ==
    { [i \in 1..k |-> (m * i + c) % 256] :
        k \in 0..MaxRawLen, m \in {0, 7}, c \in {0, 255} }

(***************************************************************************)
(* Inputs of the message layer.                                            *)
(***************************************************************************)
\* 0xdeadbeaf, the magic of the tests
X_deadbeaf == Wide(<<175, 190, 173, 222>>)

\* 0xd9b4bef9
X_d9b4bef9 == Wide(<<249, 190, 180, 217>>)

\* the magic argument of a constructor: not given, 0, 0xdeadbeaf
MagicArgSample == { None, Some(Wide(<<>>)), Some(X_deadbeaf) }

\* the checksum argument of a constructor: not given, or the 4 bytes of the tests
ChecksumArgSample == { None, Some(<<202, 151, 129, 18>>) }

\* the values handed to set_magic and set_version: the default and one other
SetMagicSample == { Wide(<<>>), X_d9b4bef9 }

SetVersionSample == { ToWide(Message_VERSION), ToWide(Message_VERSION + 1) }

\* "8.8.8.8" and "127.0.0.1"
Ip8888 == << <<8>>, <<8>>, <<8>>, <<8>> >>

Ip127001 == << <<1, 2, 7>>, <<0>>, <<0>>, <<1>> >>

\* the arguments of test_version, with the user agent 'a'
VersionBase ==
    [ addr_recv    |-> Socket(Ip8888, 8333, Wide(<<>>), None),
      addr_from    |-> Socket(Ip127001, 8333, Wide(<<>>), None),
      version      |-> Some(ToWide(Message_VERSION)),
      services     |-> Wide(<<>>),
      timestamp    |-> [aware |-> TRUE, sec |-> Wide(<<0, 0, 0, 128>>), us |-> 0],
      nonce        |-> X_deadbeaf,
      user_agent   |-> Some(<<97>>),
      start_height |-> 1337,
      relay        |-> FALSE ]

\* user agents: not given, '', 'coinflow test', and one of two non-ASCII characters
UserAgentSample ==
    { None, Some(<<>>), Some(<<233, 8364>>),
      Some(<<99, 111, 105, 110, 102, 108, 111, 119, 32, 116, 101, 115, 116>>) }

\* start heights of the i32 range
StartHeightSample == { -2147483647 - 1, -1, 0, 2147483647 }

\* the arguments of Version(...): those of the test, and each argument varied
VersionArgSample ==
    { VersionBase }
    \cup { [VersionBase EXCEPT !.version = v] : v \in { None, Some(ToWide(5)) } }
    \cup { [VersionBase EXCEPT !.services = s] :
             s \in { Wide(<<1>>), Wide(<<255, 255, 255, 255, 255, 255, 255, 255>>) } }
    \cup { [VersionBase EXCEPT !.timestamp = t] :
             t \in { [aware |-> FALSE, sec |-> Wide(<<1>>), us |-> 0],
                     [aware |-> TRUE, sec |-> Wide(<<0, 0, 0, 0, 1>>), us |-> 0] } }
    \cup { [VersionBase EXCEPT !.addr_recv = a, !.addr_from = a] :
             a \in { Socket(Ip127001, 65535, Wide(<<1>>),
                            [aware |-> TRUE, sec |-> Wide(<<1>>), us |-> 0]) } }
    \cup { [VersionBase EXCEPT !.nonce = n] :
             n \in { Wide(<<>>), Wide(<<255, 255, 255, 255, 255, 255, 255, 255>>) } }
    \cup { [VersionBase EXCEPT !.user_agent = u] : u \in UserAgentSample }
    \cup { [VersionBase EXCEPT !.start_height = h] : h \in StartHeightSample }
    \cup { [VersionBase EXCEPT !.relay = TRUE] }

\* commands of the generic message: 'TEST', 'Version', 'foo', 'GetBlockHeaders'
CommandSample ==
    { <<84, 69, 83, 84>>, <<86, 101, 114, 115, 105, 111, 110>>, <<102, 111, 111>>,
      <<71, 101, 116, 66, 108, 111, 99, 107, 72, 101, 97, 100, 101, 114, 115>> }

\* payloads of the generic message, and the payloads handed to encode_payload
PayloadSample == { None, EmptyDict, Bytes(<<120, 121, 122>>) }

\* bytes that follow a frame in a buffer
ExtraSample == { <<0>>, <<120, 121, 122>> }

\* the lengths of the long address lists: the first of the three-byte count
\* tier, and one over 2500
LongAddrLens == {253, 2501}

\* the lengths a frame of n bytes is cut to
TruncSample(n) == { k \in { 0, HeaderLen - 1, HeaderLen, HeaderLen + 1, n - 1 } : 0 <= k /\ k < n }

\* raw payloads handed to decode_payload: empty, three bytes, and 86 bytes
RawPayloadSample ==
    { <<>>, <<120, 121, 122>>, [i \in 1..(VersionFixedLen + 1) |-> 0],
      [i \in 1..(VersionFixedLen + 1) |-> 255] }

\* struct values: Varint(5), Varstr('ab'), Netaddr('1.2.3.4', 8333, 1) and
\* the Timestamp of second 2^31
StructSample ==
    { Struct("Varint", Wide(<<5>>)),
      Struct("Varstr", <<97, 98>>),
      Struct("Netaddr", Netaddr(<< <<1>>, <<2>>, <<3>>, <<4>> >>, 8333, Wide(<<1>>))),
      Struct("Timestamp", [aware |-> TRUE, sec |-> Wide(<<0, 0, 0, 128>>), us |-> 0]) }

\* attribute names: fields of Netaddr, a property of datetime and of int, and
\* a name no class defines
AttrSample == { "ip", "port", "services", "year", "real", "x" }

\* "1.2.3.4"
Ip1234 == << <<1>>, <<2>>, <<3>>, <<4>> >>

\* the entry of an address list seen at second sec: ('1.2.3.4', 8333)
AddrEntry(sec) ==
    [timestamp |-> [aware |-> TRUE, sec |-> sec, us |-> 0],
     addr      |-> Socket(Ip1234, 8333, Wide(<<>>), None)]

\* address lists handed to Addr(...): empty, one entry, three entries in
\* ascending, descending and mixed order of their timestamps, two entries of
\* one timestamp, and lists whose second entry cannot be packed
AddrListSample ==
    { <<>>,
      <<AddrEntry(Wide(<<1>>))>>,
      <<AddrEntry(Wide(<<1>>)), AddrEntry(Wide(<<2>>)), AddrEntry(Wide(<<3>>))>>,
      <<AddrEntry(Wide(<<3>>)), AddrEntry(Wide(<<2>>)), AddrEntry(Wide(<<1>>))>>,
      <<AddrEntry(Wide(<<1>>)), AddrEntry(Wide(<<3>>)), AddrEntry(Wide(<<2>>))>>,
      <<AddrEntry(Wide(<<2>>)), AddrEntry(Wide(<<2>>))>>,
      <<AddrEntry(Wide(<<1>>)),
        [AddrEntry(Wide(<<2>>)) EXCEPT !.timestamp.aware = FALSE]>>,
      <<AddrEntry(Wide(<<1>>)), AddrEntry(Wide(<<0, 0, 0, 0, 1>>))>> }

\* the list of n entries seen at seconds 1..n
AddrListOf(n) == [k \in 1..n |-> AddrEntry(ToWide(k))]

\* payloads handed to Addr.encode_payload: lists of LongAddrLens entries
AddrPayloadSample == { [addr_list |-> AddrListOf(n)] : n \in LongAddrLens }

\* an encoded entry: second sec, services 1, address 10.0.0.sec, port 8333
RawEntry(sec) ==
    <<sec, 0, 0, 0, 1, 0, 0, 0, 0, 0, 0, 0>> \o V4Mapped \o <<10, 0, 0, sec, 32, 141>>

\* count prefixes of every tier, each written for 0, 1 and 2 entries
RawPrefixSample ==
    { <<n>> : n \in 0..2 }
    \cup { <<253, n, 0>> : n \in 0..2 }
    \cup { <<254, n, 0, 0, 0>> : n \in 0..2 }
    \cup { <<255, n, 0, 0, 0, 0, 0, 0, 0>> : n \in 0..2 }

\* raw Addr payloads: a count prefix followed by 0..MaxRawEntries entries
RawAddrSample ==
    { prefix \o body :
        prefix \in RawPrefixSample,
        body \in { Slice(RawEntry(1) \o RawEntry(2) \o RawEntry(3), 0, 30 * k) :
                     k \in 0..MaxRawEntries } }

(***************************************************************************)
(* The caller.                                                             *)
(***************************************************************************)
Init ==
    /\ pc = "idle"
    /\ inp = None
    /\ wire = None
    /\ out = None
    /\ MAGIC = ToWide(Message_MAGIC)
    /\ VERSION = ToWide(Message_VERSION)
    /\ msg = None
    /\ dcls = ""

Call_int2varint ==
    /\ pc = "idle"
    /\ \E n \in IntSample :
        /\ inp' = n
        /\ wire' = int2varint(n)
    /\ pc' = "int2varint"
    /\ UNCHANGED out
    /\ UNCHANGED msgvars

Call_varint2int ==
    /\ pc = "int2varint"
    /\ wire.ok
    /\ out' = varint2int(wire.val)
    /\ pc' = "varint2int"
    /\ UNCHANGED <<inp, wire>>
    /\ UNCHANGED msgvars

Call_dt2ts ==
    /\ pc = "idle"
    /\ \E d \in DatetimeSample :
        /\ inp' = d
        /\ wire' = dt2ts(d)
    /\ pc' = "dt2ts"
    /\ UNCHANGED out
    /\ UNCHANGED msgvars

Call_ts2dt ==
    /\ pc = "dt2ts"
    /\ wire.ok
    /\ out' = ts2dt(wire.val)
    /\ pc' = "ts2dt"
    /\ UNCHANGED <<inp, wire>>
    /\ UNCHANGED msgvars

Call_Varint_encode ==
    /\ pc = "idle"
    /\ \E n \in IntSample :
        /\ inp' = n
        /\ wire' = Varint_encode(n)
    /\ pc' = "Varint.encode"
    /\ UNCHANGED out
    /\ UNCHANGED msgvars

Call_Varint_decode ==
    /\ pc = "Varint.encode"
    /\ wire.ok
    /\ out' = Varint_decode(wire.val)
    /\ pc' = "Varint.decode"
    /\ UNCHANGED <<inp, wire>>
    /\ UNCHANGED msgvars

Call_str2varstr ==
    /\ pc = "idle"
    /\ \E s \in StrSample :
        /\ inp' = s
        /\ wire' = str2varstr(s)
    /\ pc' = "str2varstr"
    /\ UNCHANGED out
    /\ UNCHANGED msgvars

Call_varstr2str ==
    /\ pc = "str2varstr"
    /\ wire.ok
    /\ out' = varstr2str(wire.val)
    /\ pc' = "varstr2str"
    /\ UNCHANGED <<inp, wire>>
    /\ UNCHANGED msgvars

\* a buffer received from outside is decoded
Call_varstr2str_raw ==
    /\ pc = "idle"
    /\ \E b \in RawVarstrSample :
        /\ wire' = Ok(b)
        /\ out' = varstr2str(b)
    /\ pc' = "varstr2str(raw)"
    /\ UNCHANGED inp
    /\ UNCHANGED msgvars

Call_Varstr_encode ==
    /\ pc = "idle"
    /\ \E s \in StrSample :
        /\ inp' = s
        /\ wire' = Varstr_encode(s)
    /\ pc' = "Varstr.encode"
    /\ UNCHANGED out
    /\ UNCHANGED msgvars

Call_Varstr_decode ==
    /\ pc = "Varstr.encode"
    /\ wire.ok
    /\ out' = Varstr_decode(wire.val)
    /\ pc' = "Varstr.decode"
    /\ UNCHANGED <<inp, wire>>
    /\ UNCHANGED msgvars

Call_Varstr_decode_raw ==
    /\ pc = "idle"
    /\ \E b \in RawVarstrSample :
        /\ wire' = Ok(b)
        /\ out' = Varstr_decode(b)
    /\ pc' = "Varstr.decode(raw)"
    /\ UNCHANGED inp
    /\ UNCHANGED msgvars

Call_netaddr_encode ==
    /\ pc = "idle"
    /\ \E ip \in IpSample, port \in PortSample, services \in ServicesSample,
          timestamp \in TimestampSample :
        /\ inp' = netaddr(ip, port, services, timestamp)
        /\ wire' = netaddr_encode(inp')
    /\ pc' = "netaddr.encode"
    /\ UNCHANGED out
    /\ UNCHANGED msgvars

Call_netaddr_from_raw ==
    /\ pc = "netaddr.encode"
    /\ wire.ok
    /\ out' = netaddr_from_raw(wire.val)
    /\ pc' = "netaddr.from_raw"
    /\ UNCHANGED <<inp, wire>>
    /\ UNCHANGED msgvars

Call_netaddr_decode_raw ==
    /\ pc = "idle"
    /\ \E b \in RawNetaddrSample :
        /\ wire' = Ok(b)
        /\ out' = netaddr_decode(b)
    /\ pc' = "netaddr.decode(raw)"
    /\ UNCHANGED inp
    /\ UNCHANGED msgvars

Call_Netaddr_encode ==
    /\ pc = "idle"
    /\ \E ip \in IpSample, port \in PortSample, services \in ServicesSample :
        /\ inp' = Netaddr(ip, port, services)
        /\ wire' = Netaddr_encode(inp')
    /\ pc' = "Netaddr.encode"
    /\ UNCHANGED out
    /\ UNCHANGED msgvars

Call_Netaddr_decode ==
    /\ pc = "Netaddr.encode"
    /\ wire.ok
    /\ out' = Netaddr_decode(wire.val)
    /\ pc' = "Netaddr.decode"
    /\ UNCHANGED <<inp, wire>>
    /\ UNCHANGED msgvars

Call_Netaddr_decode_raw ==
    /\ pc = "idle"
    /\ \E b \in RawNetaddrSample :
        /\ wire' = Ok(b)
        /\ out' = Netaddr_decode(b)
    /\ pc' = "Netaddr.decode(raw)"
    /\ UNCHANGED inp
    /\ UNCHANGED msgvars

Next ==
    \/ Call_int2varint
    \/ Call_varint2int
    \/ Call_dt2ts
    \/ Call_ts2dt
    \/ Call_Varint_encode
    \/ Call_Varint_decode
    \/ Call_str2varstr
    \/ Call_varstr2str
    \/ Call_varstr2str_raw
    \/ Call_Varstr_encode
    \/ Call_Varstr_decode
    \/ Call_Varstr_decode_raw
    \/ Call_netaddr_encode
    \/ Call_netaddr_from_raw
    \/ Call_netaddr_decode_raw
    \/ Call_Netaddr_encode
    \/ Call_Netaddr_decode
    \/ Call_Netaddr_decode_raw

Spec == Init /\ [][Next]_vars

(***************************************************************************)
(* The caller of the message layer.                                        *)
(***************************************************************************)
\* Message.set_magic(magic)
Call_set_magic ==
    /\ pc \in {"idle", "Message()"}
    /\ \E magic \in SetMagicSample : MAGIC' = magic
    /\ UNCHANGED <<pc, inp, wire, out, VERSION, msg, dcls>>

\* Message.set_version(version)
Call_set_version ==
    /\ pc \in {"idle", "Message()"}
    /\ \E version \in SetVersionSample : VERSION' = version
    /\ UNCHANGED <<pc, inp, wire, out, MAGIC, msg, dcls>>

\* Message(command, payload, magic=..., checksum=...) of either revision
Call_Message ==
    /\ pc = "idle"
    /\ \E cls \in {"Message", "messages.py:Message"}, command \in CommandSample,
          payload \in PayloadSample, magic \in {None, Some(X_deadbeaf)},
          checksum \in ChecksumArgSample :
        /\ inp' = [cls |-> cls, command |-> command, payload |-> payload,
                   magic |-> magic, checksum |-> checksum, args |-> None]
        /\ msg' = Message_init(cls, VERSION, MAGIC, command, payload, magic, checksum)
    /\ pc' = "Message()"
    /\ UNCHANGED <<wire, out, MAGIC, VERSION, dcls>>

\* Version(addr_recv, addr_from, version, ..., magic=..., checksum=...)
Call_Version ==
    /\ pc = "idle"
    /\ \E a \in VersionArgSample, magic \in MagicArgSample,
          checksum \in ChecksumArgSample :
        /\ a = VersionBase \/ magic = None
        /\ inp' = [cls |-> "Version", command |-> <<118, 101, 114, 115, 105, 111, 110>>,
                   payload |-> None, magic |-> magic, checksum |-> checksum,
                   args |-> a]
        /\ msg' = Version_init(VERSION, MAGIC, a, magic, checksum)
    /\ pc' = "Message()"
    /\ UNCHANGED <<wire, out, MAGIC, VERSION, dcls>>

\* Verack(magic=..., checksum=...)
Call_Verack ==
    /\ pc = "idle"
    /\ \E magic \in MagicArgSample, checksum \in ChecksumArgSample :
        /\ inp' = [cls |-> "Verack", command |-> <<118, 101, 114, 97, 99, 107>>,
                   payload |-> None, magic |-> magic, checksum |-> checksum,
                   args |-> None]
        /\ msg' = Verack_init(VERSION, MAGIC, magic, checksum)
    /\ pc' = "Message()"
    /\ UNCHANGED <<wire, out, MAGIC, VERSION, dcls>>

\* Addr(addr_list, magic=..., checksum=...)
Call_Addr ==
    /\ pc = "idle"
    /\ \E addr_list \in AddrListSample, magic \in MagicArgSample,
          checksum \in ChecksumArgSample :
        /\ Len(addr_list) = 1 \/ (magic = None /\ checksum = None)
        /\ inp' = [cls |-> "Addr", command |-> <<97, 100, 100, 114>>,
                   payload |-> None, magic |-> magic, checksum |-> checksum,
                   args |-> [addr_list |-> addr_list]]
        /\ msg' = Addr_init(VERSION, MAGIC, addr_list, magic, checksum)
    /\ pc' = "Message()"
    /\ UNCHANGED <<wire, out, MAGIC, VERSION, dcls>>

\* setattr(self, name, value) for a struct value self
Call_setattr ==
    /\ pc = "idle"
    /\ \E self \in StructSample, name \in AttrSample, value \in {None, Some(0)} :
        /\ inp' = [cls |-> self.cls, self |-> self, name |-> name, value |-> value]
        /\ out' = Struct_setattr(self, name, value).result
        /\ msg' = Ok(Struct_setattr(self, name, value).self)
    /\ pc' = "setattr"
    /\ UNCHANGED <<wire, MAGIC, VERSION, dcls>>

\* delattr(self, name) for a struct value self
Call_delattr ==
    /\ pc = "idle"
    /\ \E self \in StructSample, name \in AttrSample :
        /\ inp' = [cls |-> self.cls, self |-> self, name |-> name]
        /\ out' = Struct_delattr(self, name).result
        /\ msg' = Ok(Struct_delattr(self, name).self)
    /\ pc' = "delattr"
    /\ UNCHANGED <<wire, MAGIC, VERSION, dcls>>

\* len(msg)
Call_Message_len ==
    /\ pc = "Message()"
    /\ msg.ok
    /\ out' = Message_len(msg.val, VERSION)
    /\ pc' = "len"
    /\ UNCHANGED <<inp, wire, MAGIC, VERSION, msg, dcls>>

\* msg.encode()
Call_Message_encode ==
    /\ pc = "Message()"
    /\ msg.ok
    /\ wire' = Message_bytes(msg.val, VERSION)
    /\ pc' = "Message.encode"
    /\ UNCHANGED <<inp, out, MAGIC, VERSION, msg, dcls>>

\* msg.encode_payload(payload) for any payload, the long lists being handed to
\* the Addr of the empty list under the MAGIC and VERSION of the source; inp
\* keeps the payload handed in
Call_encode_payload ==
    /\ pc = "Message()"
    /\ msg.ok
    /\ \E payload \in PayloadSample \cup
                       (IF /\ msg.val.payload = [addr_list |-> <<>>]
                           /\ MAGIC = ToWide(Message_MAGIC)
                           /\ VERSION = ToWide(Message_VERSION)
                        THEN AddrPayloadSample ELSE {}) :
        /\ inp' = [inp EXCEPT !.payload = payload]
        /\ wire' = encode_payload(msg.val.cls, VERSION, msg.val.payload, payload)
    /\ pc' = "encode_payload"
    /\ UNCHANGED <<out, MAGIC, VERSION, msg, dcls>>

\* cls.decode(buf) for the encoded frame
Call_Message_decode ==
    /\ pc = "Message.encode"
    /\ wire.ok
    /\ \E cls \in Classes :
        /\ dcls' = cls
        /\ out' = Message_decode(cls, wire.val)
    /\ pc' = "Message.decode"
    /\ UNCHANGED <<inp, wire, MAGIC, VERSION, msg>>

\* cls.from_raw(buf) for the encoded frame: its first statement,
\* parsed = cls.decode(buf), is the step Call_Message_decode, and this is
\* its second, which leaves the message made or the exception raised
Call_Message_from_raw ==
    /\ pc = "Message.decode"
    /\ out' = from_parsed(dcls, VERSION, MAGIC, out)
    /\ pc' = "Message.from_raw"
    /\ UNCHANGED <<inp, wire, MAGIC, VERSION, msg, dcls>>

\* cls.decode(buf) for a buffer that holds more bytes than the frame
Call_Message_decode_extended ==
    /\ pc = "Message.encode"
    /\ wire.ok
    /\ \E cls \in Classes, extra \in ExtraSample :
        /\ dcls' = cls
        /\ wire' = Ok(wire.val \o extra)
        /\ out' = Message_decode(cls, wire.val \o extra)
    /\ pc' = "Message.decode(extended)"
    /\ UNCHANGED <<inp, MAGIC, VERSION, msg>>

\* cls.decode(buf) for a buffer that holds the first k bytes of the frame
Call_Message_decode_truncated ==
    /\ pc = "Message.encode"
    /\ wire.ok
    /\ \E cls \in Classes, k \in TruncSample(Len(wire.val)) :
        /\ dcls' = cls
        /\ wire' = Ok(Slice(wire.val, 0, k))
        /\ out' = Message_decode(cls, Slice(wire.val, 0, k))
    /\ pc' = "Message.decode(truncated)"
    /\ UNCHANGED <<inp, MAGIC, VERSION, msg>>

\* Version.decode_payload_raw(buf[24:]) for the frame, alone or followed by
\* more bytes
Call_Version_decode_payload_raw ==
    /\ pc = "Message.encode"
    /\ wire.ok
    /\ \E extra \in {<<>>} \cup ExtraSample :
        /\ wire' = Ok(wire.val \o extra)
        /\ out' = Version_decode_payload_raw(Slice(wire.val \o extra, HeaderLen,
                                                   Len(wire.val \o extra)))
    /\ dcls' = "Version"
    /\ pc' = "Version.decode_payload_raw"
    /\ UNCHANGED <<inp, MAGIC, VERSION, msg>>

\* cls.decode_payload(payload) for a raw payload
Call_decode_payload ==
    /\ pc = "idle"
    /\ \E cls \in Classes, payload \in RawPayloadSample \cup RawAddrSample :
        /\ dcls' = cls
        /\ wire' = Ok(payload)
        /\ out' = decode_payload(cls, payload)
    /\ pc' = "decode_payload"
    /\ UNCHANGED <<inp, MAGIC, VERSION, msg>>

MsgNext ==
    \/ Call_set_magic
    \/ Call_set_version
    \/ Call_Message
    \/ Call_Version
    \/ Call_Verack
    \/ Call_Addr
    \/ Call_setattr
    \/ Call_delattr
    \/ Call_Message_len
    \/ Call_Message_encode
    \/ Call_encode_payload
    \/ Call_Message_decode
    \/ Call_Message_from_raw
    \/ Call_Message_decode_extended
    \/ Call_Message_decode_truncated
    \/ Call_Version_decode_payload_raw
    \/ Call_decode_payload

MsgSpec == Init /\ [][MsgNext]_vars

(***************************************************************************)
(* Several contexts, each constructing, encoding and decoding a message of *)
(* its own, their statements interleaved.  No context calls set_magic or   *)
(* set_version.  pc, inp, msg, wire and out hold one value per context;    *)
(* the input of a context records the MAGIC and VERSION it started under.  *)
(***************************************************************************)
Contexts == {1, 2}

\* the constructor calls of the contexts: Verack(), which computes its
\* checksum, and four that are handed the checksum of the tests:
\* Verack(magic=0xdeadbeaf), the Version of the tests, an Addr of one entry,
\* Message('TEST', b'xyz')
CtxInputSample ==
    { [cls |-> "Verack", command |-> <<118, 101, 114, 97, 99, 107>>, payload |-> None,
       magic |-> None, checksum |-> None, args |-> None],
      [cls |-> "Verack", command |-> <<118, 101, 114, 97, 99, 107>>, payload |-> None,
       magic |-> Some(X_deadbeaf), checksum |-> Some(<<202, 151, 129, 18>>),
       args |-> None],
      [cls |-> "Version", command |-> <<118, 101, 114, 115, 105, 111, 110>>,
       payload |-> None, magic |-> None, checksum |-> Some(<<202, 151, 129, 18>>),
       args |-> VersionBase],
      [cls |-> "Addr", command |-> <<97, 100, 100, 114>>, payload |-> None,
       magic |-> None, checksum |-> Some(<<202, 151, 129, 18>>),
       args |-> [addr_list |-> <<AddrEntry(Wide(<<1>>))>>]],
      [cls |-> "messages.py:Message", command |-> <<84, 69, 83, 84>>,
       payload |-> Bytes(<<120, 121, 122>>), magic |-> None,
       checksum |-> Some(<<202, 151, 129, 18>>), args |-> None] }

\* the constructor call i under VERSION V and MAGIC M
Construct(i, V, M) ==
    IF i.cls = "Version" THEN Version_init(V, M, i.args, i.magic, i.checksum)
    ELSE IF i.cls = "Verack" THEN Verack_init(V, M, i.magic, i.checksum)
    ELSE IF i.cls = "Addr" THEN Addr_init(V, M, i.args.addr_list, i.magic, i.checksum)
    ELSE Message_init(i.cls, V, M, i.command, i.payload, i.magic, i.checksum)

ConcInit ==
    /\ \E M \in SetMagicSample, V \in SetVersionSample :
        /\ MAGIC = M
        /\ VERSION = V
        /\ inp \in [Contexts -> { [cls |-> i.cls, command |-> i.command,
                                    payload |-> i.payload, magic |-> i.magic,
                                    checksum |-> i.checksum, args |-> i.args,
                                    MAGIC |-> M, VERSION |-> V] :
                                   i \in CtxInputSample }]
    /\ pc = [c \in Contexts |-> "idle"]
    /\ msg = [c \in Contexts |-> None]
    /\ wire = [c \in Contexts |-> None]
    /\ out = [c \in Contexts |-> None]
    /\ dcls = ""

\* context c constructs its message
Ctx_Message(c) ==
    /\ pc[c] = "idle"
    /\ msg' = [msg EXCEPT ![c] = Construct(inp[c], VERSION, MAGIC)]
    /\ MAGIC' = Message_init_class_MAGIC(MAGIC, inp[c].magic)
    /\ pc' = [pc EXCEPT ![c] = "Message()"]
    /\ UNCHANGED <<inp, wire, out, VERSION, dcls>>

\* context c runs the first statement of __bytes__:
\* payload = self.encode_payload(self.payload)
Ctx_encode_payload(c) ==
    /\ pc[c] = "Message()"
    /\ msg[c].ok
    /\ out' = [out EXCEPT ![c] = encode_payload(msg[c].val.cls, VERSION,
                                                msg[c].val.payload, msg[c].val.payload)]
    /\ pc' = [pc EXCEPT ![c] = "encode_payload"]
    /\ UNCHANGED <<inp, wire, MAGIC, VERSION, msg, dcls>>

\* context c runs the second statement of __bytes__
Ctx_Message_bytes(c) ==
    /\ pc[c] = "encode_payload"
    /\ out[c].ok
    /\ wire' = [wire EXCEPT ![c] = Message_bytes_pack(msg[c].val, out[c].val)]
    /\ pc' = [pc EXCEPT ![c] = "Message.encode"]
    /\ UNCHANGED <<inp, out, MAGIC, VERSION, msg, dcls>>

\* context c decodes the frame it encoded, with the class of its message
Ctx_Message_decode(c) ==
    /\ pc[c] = "Message.encode"
    /\ wire[c].ok
    /\ out' = [out EXCEPT ![c] = Message_decode(msg[c].val.cls, wire[c].val)]
    /\ pc' = [pc EXCEPT ![c] = "Message.decode"]
    /\ UNCHANGED <<inp, wire, MAGIC, VERSION, msg, dcls>>

ConcNext ==
    \/ \E c \in Contexts : Ctx_Message(c)
    \/ \E c \in Contexts : Ctx_encode_payload(c)
    \/ \E c \in Contexts : Ctx_Message_bytes(c)
    \/ \E c \in Contexts : Ctx_Message_decode(c)

ConcSpec == ConcInit /\ [][ConcNext]_vars

(***************************************************************************)
(* Properties.                                                             *)
(***************************************************************************)
VarintEncoded == pc \in {"int2varint", "Varint.encode"}

VarintDecoded == pc \in {"varint2int", "Varint.decode"}

\* C1: VarInt value round-trip.  For every integer n of 0..2^64-1 the
\* encoders return bytes, and decoding those bytes returns the value n.
C1_VarintValueRoundTrip ==
    /\ VarintEncoded => wire.ok
    /\ VarintDecoded => out.ok /\ out.val[1] = inp

C1_Witness ==
    /\ VarintDecoded
    /\ inp = Wide(<<0, 0, 0, 0, 1>>)
    /\ Len(wire.val) = 9
    /\ out.ok /\ out.val[1] = inp

\* the narrowest tier of the claim: the bytes the value needs
NarrowestEncoding(n) ==
    IF FitsIn(n, 1) /\ n[1] < 253 THEN <<n[1]>>
    ELSE IF FitsIn(n, 2) THEN <<253>> \o SubSeq(n, 1, 2)
    ELSE IF FitsIn(n, 4) THEN <<254>> \o SubSeq(n, 1, 4)
    ELSE <<255>> \o n

\* C2: VarInt encode selects the narrowest tier for every n of 0..2^64-1:
\* 1 byte below 0xfd, 0xfd + u16 up to 0xffff, 0xfe + u32 up to 0xffffffff,
\* 0xff + u64 above.  (The statement of the claim; the code breaks it.)
C2_NarrowestTier ==
    VarintEncoded => wire = Ok(NarrowestEncoding(inp))

\* C3: VarInt decode reports the consumed byte count equal to the encoded
\* length: decode(encode(n)) = (n, len(encode(n))).  (The statement of the
\* claim; the code breaks it.)
C3_ConsumedEqualsEncodedLength ==
    VarintDecoded => out = Ok(<<inp, Len(wire.val)>>)

\* C4: VarInt boundary rule.  0xfd is encoded in the 3-byte tier, not in one
\* byte, and 0xffffffff in the 9-byte tier, not in the 5-byte tier; each tier
\* test is a strict less-than against the next boundary, so 0xfc, 0xfffe and
\* 0xfffffffe are the last values of their tiers and 0xffff is in the 5-byte tier.
C4_BoundaryRule ==
    VarintEncoded =>
        /\ inp = Wide(<<252>>) => wire = Ok(<<252>>)
        /\ inp = Wide(<<253>>) => wire = Ok(<<253, 253, 0>>)
        /\ inp = Wide(<<254, 255>>) => wire = Ok(<<253, 254, 255>>)
        /\ inp = Wide(<<255, 255>>) => wire = Ok(<<254, 255, 255, 0, 0>>)
        /\ inp = Wide(<<254, 255, 255, 255>>) => wire = Ok(<<254, 254, 255, 255, 255>>)
        /\ inp = Wide(<<255, 255, 255, 255>>)
              => wire = Ok(<<255, 255, 255, 255, 255, 0, 0, 0, 0>>)

C4_Witness ==
    /\ pc = "Varint.encode"
    /\ inp = Wide(<<255, 255, 255, 255>>)
    /\ wire.ok /\ Len(wire.val) = 9 /\ wire.val[1] = 255

VarstrEncoded == pc \in {"str2varstr", "Varstr.encode"}

VarstrDecoded == pc \in {"varstr2str", "Varstr.decode"}

VarstrDecodedRaw == pc \in {"varstr2str(raw)", "Varstr.decode(raw)"}

\* C5: VarStr round-trip.  For every string s (empty, ASCII, with multi-byte
\* characters, longer than 1000 characters) decoding the encoding of s
\* returns (s, total byte length of the encoding).  (The statement of the
\* claim; the code breaks it.)
C5_VarstrRoundTrip ==
    /\ VarstrEncoded => wire.ok
    /\ VarstrDecoded => out = Ok(<<inp, ToWide(Len(wire.val))>>)

\* the VarInt at the head of a buffer, read by the wire format's rule: the
\* value and the number of bytes of the prefix (1, 3, 5 or 9); None when the
\* buffer ends inside the prefix
PrefixWidth(m) == IF m < 253 THEN 1 ELSE IF m = 253 THEN 3 ELSE IF m = 254 THEN 5 ELSE 9

Prefix(b) ==
    IF Len(b) = 0 \/ Len(b) < PrefixWidth(b[1]) THEN None
    ELSE IF b[1] < 253 THEN [none |-> FALSE, value |-> Wide(<<b[1]>>), width |-> 1]
    ELSE [none |-> FALSE, value |-> Wide(SubSeq(b, 2, PrefixWidth(b[1]))),
          width |-> PrefixWidth(b[1])]

\* C6: VarStr encode writes as its VarInt prefix the number of bytes of the
\* UTF-8 encoding of the string, not its number of characters, followed by
\* exactly that many content bytes.  (The statement of the claim; the code
\* breaks it.)
C6_VarstrPrefixIsByteLength ==
    VarstrEncoded =>
        /\ wire.ok
        /\ LET content == utf8_encode(inp)
               p == Prefix(wire.val)
           IN  /\ ~p.none
               /\ p.value = ToWide(Len(content))
               /\ wire.val = SubSeq(wire.val, 1, p.width) \o content

\* C7: VarStr decode fails whenever the buffer holds fewer content bytes
\* after the VarInt prefix than the prefix announces, and whenever the
\* announced content bytes are not valid UTF-8; a string it returns has the
\* announced number of bytes.  (The statement of the claim; the code breaks it.)
C7_VarstrDecodeRejects ==
    VarstrDecodedRaw =>
        LET b == wire.val
            p == Prefix(b)
        IN  IF p.none THEN ~out.ok
            ELSE LET have == ToWide(Len(b) - p.width)
                     content == SliceCount(b, p.width, p.value)
                 IN  /\ Lt(have, p.value) => ~out.ok
                     /\ ~utf8_decode(content).ok => ~out.ok
                     /\ out.ok => ToWide(Len(utf8_encode(out.val[1]))) = p.value

\* the address is one of the data model: its timestamp is absent or a
\* time-zone-aware datetime of a u32 number of whole seconds
InDataModel(a) ==
    \/ a.timestamp = None
    \/ a.timestamp.aware /\ FitsIn(a.timestamp.sec, 4) /\ a.timestamp.us = 0

\* the wire form of the claim: the timestamp bytes (none, or 4), services as
\* 8 bytes little-endian, 10 zero bytes, 0xff 0xff, the 4 address bytes, the
\* port as 2 bytes in network order
WireForm(tsbytes, a) ==
    tsbytes \o a.services \o Zeros(10) \o <<255, 255>>
    \o [i \in 1..4 |-> DecValue(a.ip[i], Len(a.ip[i]))]
    \o <<a.port \div 256, a.port % 256>>

\* C8: NetAddr encode produces exactly 30 bytes when the address carries a
\* timestamp and exactly 26 when it does not, laid out as [timestamp u32
\* little-endian]? + services + 10 zero bytes + 0xff 0xff + IPv4 + port.
\* (The statement of the claim; the code breaks it.)
C8_NetaddrEncodeLayout ==
    /\ pc = "netaddr.encode" /\ InDataModel(inp) =>
        /\ wire.ok
        /\ Len(wire.val) = IF inp.timestamp = None THEN 26 ELSE 30
        /\ wire.val = WireForm(IF inp.timestamp = None THEN <<>>
                               ELSE SubSeq(inp.timestamp.sec, 1, 4), inp)
    /\ pc = "Netaddr.encode" =>
        /\ wire.ok
        /\ Len(wire.val) = 26
        /\ wire.val = WireForm(<<>>, inp)

\* C9: NetAddr decode fails for every buffer whose length is neither 26 nor
\* 30 and returns no address then; the timestamp is read only from a 30-byte
\* buffer and is absent for a 26-byte buffer.  (The statement of the claim;
\* the code breaks it.)
C9_NetaddrDecodeRejects ==
    /\ pc \in {"netaddr.decode(raw)", "Netaddr.decode(raw)"} =>
        (Len(wire.val) \notin {26, 30} => ~out.ok)
    /\ pc = "netaddr.decode(raw)" /\ Len(wire.val) = 26 =>
        out.ok /\ out.val.timestamp = None
    /\ pc = "netaddr.decode(raw)" /\ Len(wire.val) = 30 =>
        /\ out.ok
        /\ out.val.timestamp
             = [aware |-> TRUE, sec |-> Wide(SubSeq(wire.val, 1, 4)), us |-> 0]

\* C10: NetAddr round-trip.  For every address with services in 0..2^64-1,
\* any IPv4 address, port in 0..65535 and timestamp absent or a u32 number
\* of Unix seconds, from_raw(encode(addr)) has the same ip, port, services
\* and timestamp as addr.  (The statement of the claim; the code breaks it.)
C10_NetaddrRoundTrip ==
    /\ pc = "netaddr.encode" /\ InDataModel(inp) => wire.ok
    /\ pc = "netaddr.from_raw" /\ InDataModel(inp) => out = Ok(inp)

\* C29: timestamp conversion round trip: dt2ts accepts only timezone-aware
\* datetimes (a naive datetime raises TypeError and returns no value), and
\* for every timezone-aware datetime d, instants before the Unix epoch with
\* a non-zero microsecond part included, ts2dt(dt2ts(d)) equals d with its
\* microseconds set to zero.  (The statement of the claim; the code breaks
\* it.)
C29_TimestampRoundTrip ==
    /\ pc = "dt2ts" =>
        IF inp.aware THEN wire.ok ELSE wire = Raise("TypeError")
    /\ pc = "ts2dt" => out = [inp EXCEPT !.us = 0]

(***************************************************************************)
(* Properties of the message layer, under MsgSpec.                         *)
(***************************************************************************)
FrameEncoded == pc = "Message.encode"

FrameDecoded == pc = "Message.decode"

\* the header fields of a buffer of at least 24 bytes
HeaderCommand(buf) == SubSeq(buf, 5, 16)

HeaderLength(buf) == Wide(SubSeq(buf, 17, 20))

HeaderChecksum(buf) == SubSeq(buf, 21, 24)

\* the bytes that follow the header
AfterHeader(buf) == IF Len(buf) <= 24 THEN <<>> ELSE SubSeq(buf, 25, Len(buf))

\* C11: Frame encode.  For every message the encoded bytes are a 24-byte
\* header followed by the encoded payload: the size is 24 + len(payload
\* bytes), and the header's length field is the number of payload bytes that
\* follow.
C11_FrameLayout ==
    FrameEncoded =>
        LET payload == encode_payload(msg.val.cls, VERSION, msg.val.payload,
                                      msg.val.payload)
        IN  /\ wire.ok /\ payload.ok
            /\ Len(wire.val) = 24 + Len(payload.val)
            /\ AfterHeader(wire.val) = payload.val
            /\ HeaderLength(wire.val) = ToWide(Len(wire.val) - 24)

\* the Version message of test_version: 123 bytes, length field 99
C11_Witness ==
    /\ FrameEncoded
    /\ inp.cls = "Version"
    /\ wire.ok
    /\ Len(wire.val) = 123
    /\ SubSeq(wire.val, 17, 20) = <<99, 0, 0, 0>>
    /\ Len(AfterHeader(wire.val)) = 99

\* an ASCII letter in lower case
AsciiLower(c) == IF c >= 65 /\ c <= 90 THEN c + 32 ELSE c

\* the first 12 characters of an ASCII command, in lower case
CommandKept(command) ==
    [i \in 1..(IF Len(command) < 12 THEN Len(command) ELSE 12) |->
        AsciiLower(command[i])]

\* the 12-byte command field: the kept characters, then null bytes
CommandField(command) ==
    [i \in 1..12 |-> IF i <= Len(command) THEN AsciiLower(command[i]) ELSE 0]

\* C12: Frame command handling.  Encode writes the lower-cased command as
\* exactly 12 bytes, null-padded when shorter and truncated when longer, and
\* decoding the frame returns the lower-cased command with no null bytes.
\* (The statement of the claim; the code breaks it.)
C12_CommandHandling ==
    /\ FrameEncoded =>
        wire.ok /\ HeaderCommand(wire.val) = CommandField(inp.command)
    /\ FrameDecoded /\ dcls = inp.cls =>
        out.ok /\ out.val.command = CommandKept(inp.command)

\* states in which cls.decode(buf) has run on the buffer held in wire
DecodeStates ==
    {"Message.decode", "Message.decode(extended)", "Message.decode(truncated)"}

\* the header's length field of a buffer of at least 24 bytes, as a number
HeaderLengthOf(buf) == Small(HeaderLength(buf))

\* C13: Frame decode takes as payload exactly the `length` bytes that follow
\* the 24-byte header: the payload it returns is the payload codec's result
\* for those bytes, whatever follows them in the buffer.  (The statement of
\* the claim; the code breaks it.)
C13_ExactPayload ==
    pc \in {"Message.decode", "Message.decode(extended)"} /\ out.ok =>
        Ok(out.val.payload)
            = decode_payload(dcls, Slice(wire.val, 24, 24 + HeaderLengthOf(wire.val)))

\* C14: Frame decode fails, returning no parsed message, for every buffer
\* shorter than 24 + length bytes, buffers shorter than the 24-byte header
\* included.  (The statement of the claim; the code breaks it.)
C14_ShortBufferRejected ==
    pc \in DecodeStates =>
        (Len(wire.val) < 24 => ~out.ok)
        /\ (Len(wire.val) >= 24 /\ Len(wire.val) < 24 + HeaderLengthOf(wire.val)
                => ~out.ok)

\* C15: Frame decode never verifies the checksum: for every well-formed frame
\* decode succeeds and returns the header's 4 checksum bytes unchanged,
\* whether or not they are the double hash of the payload.  (The statement of
\* the claim; the code breaks it.)
C15_ChecksumNotVerified ==
    FrameDecoded /\ dcls = inp.cls =>
        out.ok /\ out.val.checksum = HeaderChecksum(wire.val)

\* C16: Frame checksum.  Without an override the header checksum is the first
\* 4 bytes of the double hash of the encoded payload bytes; with an override
\* the header carries the override bytes unchanged.  (The statement of the
\* claim; the code breaks it.)
C16_FrameChecksum ==
    FrameEncoded =>
        /\ wire.ok
        /\ inp.checksum # None => HeaderChecksum(wire.val) = inp.checksum.some
        /\ inp.checksum = None =>
            HeaderChecksum(wire.val) = SubSeq(dsha256(AfterHeader(wire.val)), 1, 4)

\* the commands that have a payload codec: version, verack, addr
KnownCommands ==
    { <<118, 101, 114, 115, 105, 111, 110>>, <<118, 101, 114, 97, 99, 107>>,
      <<97, 100, 100, 114>> }

\* C17: Unknown commands are not rejected: the generic decode of a
\* well-formed frame whose command is none of version, verack, addr succeeds
\* and its result carries the raw, undecoded payload bytes.  (The statement
\* of the claim; the code breaks it.)
C17_UnknownCommandKeepsBytes ==
    /\ FrameDecoded
    /\ dcls \in {"Message", "messages.py:Message"}
    /\ CommandKept(inp.command) \notin KnownCommands
    => /\ out.ok
       /\ out.val.payload = Bytes(AfterHeader(wire.val))

\* the 26-byte NetAddr at offset i of a Version payload carries the IPv4
\* marker right after its 8 service bytes: no timestamp field precedes it
AddrWithoutTimestamp(payload, i) == SubSeq(payload, i + 9, i + 20) = V4Mapped

\* C18: Version encode always writes addr_recv and addr_from in the 26-byte
\* form without a timestamp field, even when a timestamp is supplied for
\* them, so that decoding the encoded Version yields addresses that carry no
\* timestamp.  (The statement of the claim; the code breaks it.)
C18_VersionAddressesNoTimestamp ==
    /\ FrameEncoded /\ inp.cls = "Version" =>
        /\ wire.ok
        /\ AddrWithoutTimestamp(AfterHeader(wire.val), 20)
        /\ AddrWithoutTimestamp(AfterHeader(wire.val), 46)
        /\ SubSeq(AfterHeader(wire.val), 73, 80) = inp.args.nonce
    /\ FrameDecoded /\ inp.cls = "Version" /\ dcls = "Version" =>
        /\ out.ok
        /\ out.val.payload.addr_recv
             = <<inp.args.addr_recv.ipaddr, inp.args.addr_recv.port>>
        /\ out.val.payload.addr_from
             = <<inp.args.addr_from.ipaddr, inp.args.addr_from.port>>

\* Version(...) called with explicit values of version and user_agent, a
\* timezone-aware timestamp, and the other arguments of the samples
ExplicitVersionArgs(a) ==
    /\ a.version # None
    /\ a.user_agent # None
    /\ a.timestamp.aware

\* the payload the round trip has to return: the values handed to Version(...)
VersionPayloadOf(a) ==
    [version      |-> a.version.some,
     services     |-> a.services,
     timestamp    |-> a.timestamp,
     addr_recv    |-> <<a.addr_recv.ipaddr, a.addr_recv.port>>,
     addr_from    |-> <<a.addr_from.ipaddr, a.addr_from.port>>,
     nonce        |-> a.nonce,
     user_agent   |-> a.user_agent.some,
     start_height |-> a.start_height,
     relay        |-> a.relay]

\* the number of bytes of the VarStr of a string shorter than 0xfd bytes
VarstrLen(str) == 1 + Len(utf8_encode(str))

\* C19: Version round-trip.  For every Version message built from explicit
\* values of its nine fields (start_height any i32, negative values
\* included), the message is built and encoded, decode(encode(msg)) returns
\* a payload whose nine fields are the values handed to the constructor, and
\* the length field is 85 plus the length of the VarStr of user_agent.  (The
\* statement of the claim; the code breaks it.)
C19_VersionRoundTrip ==
    /\ pc = "Message()" /\ inp.cls = "Version" /\ ExplicitVersionArgs(inp.args) =>
        msg.ok
    /\ FrameEncoded /\ inp.cls = "Version" /\ ExplicitVersionArgs(inp.args) =>
        /\ wire.ok
        /\ HeaderLengthOf(wire.val) = 85 + VarstrLen(inp.args.user_agent.some)
    /\ FrameDecoded /\ dcls = "Version" /\ inp.cls = "Version"
          /\ ExplicitVersionArgs(inp.args) =>
        /\ out.ok
        /\ out.val.payload = VersionPayloadOf(inp.args)

\* C20: Verack carries no data: encode_payload returns zero bytes for every
\* payload handed to it, decode_payload returns an empty result for every
\* byte buffer handed to it, and an encoded Verack message has length
\* field 0.
C20_VerackCarriesNoData ==
    /\ pc = "encode_payload" /\ inp.cls = "Verack" => wire = Ok(<<>>)
    /\ pc = "decode_payload" /\ dcls = "Verack" => out = Ok(EmptyDict)
    /\ FrameEncoded /\ inp.cls = "Verack" =>
        /\ wire.ok
        /\ Len(wire.val) = 24
        /\ SubSeq(wire.val, 17, 20) = <<0, 0, 0, 0>>
    /\ FrameDecoded /\ inp.cls = "Verack" /\ dcls = "Verack" =>
        out.ok /\ out.val.payload = EmptyDict

\* Verack().encode_payload(b'xyz') has returned b''
C20_Witness ==
    /\ pc = "encode_payload"
    /\ inp.cls = "Verack"
    /\ inp.payload = Bytes(<<120, 121, 122>>)
    /\ wire = Ok(<<>>)

(***************************************************************************)
(* Properties of Addr, under MsgSpec.                                      *)
(***************************************************************************)
\* C21: Addr decode returns exactly count entries, count being the value of
\* the VarInt prefix: entry k (0 <= k < count) is read from the 30 bytes
\* that start at offset prefix_length + 30*k, for every count >= 0 and
\* every prefix tier.  (The statement of the claim; the code breaks it.)
C21_AddrDecodeReadsCountEntries ==
    pc = "decode_payload" /\ dcls = "Addr" =>
        LET b == wire.val
            p == Prefix(b)
        IN  (~p.none /\ FitsIn(p.value, 3)
                /\ Len(b) >= p.width + 30 * Small(p.value)) =>
            /\ out.ok
            /\ Len(out.val.addr_list) = Small(p.value)
            /\ \A k \in 0..(Small(p.value) - 1) :
                  out.val.addr_list[k + 1] =
                      Addr_unpack_entry(SubSeq(b, p.width + 30 * k + 1,
                                               p.width + 30 * k + 30))

\* the encoded Addr payload at hand: the payload of an encoded Addr frame, or
\* what Addr.encode_payload returned; <<>> in every other state
AddrPayloadEncoded ==
    IF pc \in {"Message.encode", "encode_payload"}
    THEN (IF inp.cls = "Addr" /\ wire.ok
          THEN (IF pc = "Message.encode" THEN AfterHeader(wire.val) ELSE wire.val)
          ELSE <<>>)
    ELSE <<>>

\* the number of 30-byte entries that follow the count prefix of payload b
EntriesAfterPrefix(b) == (Len(b) - Prefix(b).width) \div 30

\* the timestamp of entry k (1 <= k) of the encoded payload b
EntryTimestamp(b, k) ==
    Wide(SubSeq(b, Prefix(b).width + 30 * (k - 1) + 1, Prefix(b).width + 30 * (k - 1) + 4))

\* C22: Addr encode orders the entries by timestamp descending: for every
\* input list, in whatever order it is given, the entries appear in the
\* encoded payload most-recently-seen first.  (The statement of the claim;
\* the code breaks it.)
C22_AddrEncodeSortsDescending ==
    AddrPayloadEncoded # <<>> =>
        \A k \in 1..(EntriesAfterPrefix(AddrPayloadEncoded) - 1) :
            ~Lt(EntryTimestamp(AddrPayloadEncoded, k),
                EntryTimestamp(AddrPayloadEncoded, k + 1))

\* the list that was encoded: the one handed to encode_payload, or the one
\* the message was constructed with when none (or a falsy one) was handed in
AddrListEncoded ==
    IF pc = "encode_payload" /\ ~Falsy(inp.payload) THEN inp.payload.addr_list
    ELSE inp.args.addr_list

\* C23: Addr encode caps the list: for an input list of n entries the encoded
\* payload contains min(n, 2500) entries and its VarInt count prefix equals
\* min(n, 2500); the count prefix always equals the number of 30-byte
\* entries that follow it.  (The statement of the claim; the code breaks it.)
C23_AddrEncodeCaps ==
    AddrPayloadEncoded # <<>> =>
        LET b == AddrPayloadEncoded IN
        /\ Prefix(b).value = ToWide(Min(Len(AddrListEncoded), 2500))
        /\ EntriesAfterPrefix(b) = Min(Len(AddrListEncoded), 2500)
        /\ Len(b) = Prefix(b).width + 30 * EntriesAfterPrefix(b)

(***************************************************************************)
(* Properties of the objects over time, under MsgSpec.                     *)
(***************************************************************************)
\* the calls that are handed a constructed message, or its encoding
MessageCalls ==
    { "Message.encode", "encode_payload", "len", "Message.decode",
      "Message.from_raw", "Message.decode(extended)", "Message.decode(truncated)",
      "Version.decode_payload_raw" }

\* C24: entities are immutable after construction: every attribute
\* assignment or deletion on a struct value (Varint, Varstr, Netaddr,
\* Timestamp) raises TypeError and leaves the value unchanged, and no
\* encode, decode or len call changes the fields (command, payload, magic,
\* checksum) of a constructed message.
C24_Immutable ==
    [][ /\ pc' \in {"setattr", "delattr"} =>
            /\ out' = Raise("TypeError")
            /\ msg' = Ok(inp'.self)
        /\ pc' \in MessageCalls /\ msg # None => msg' = msg ]_vars

\* n.ip = 0 has raised TypeError for the Netaddr n, and n is as it was
C24_Witness ==
    /\ pc = "setattr"
    /\ inp.cls = "Netaddr"
    /\ inp.name = "ip"
    /\ inp.value = Some(0)
    /\ out = Raise("TypeError")
    /\ msg = Ok(Struct("Netaddr", Netaddr(<< <<1>>, <<2>>, <<3>>, <<4>> >>, 8333, Wide(<<1>>))))

\* the magic field of the header of a buffer of at least 24 bytes
HeaderMagic(buf) == Wide(SubSeq(buf, 1, 4))

\* C26: set_magic is global: after Message.set_magic(m) has returned m, every
\* instance of Message and of its subclasses that was not given its own
\* magic, whether constructed before or after the call, encodes with header
\* magic m.  (The statement of the claim; the code breaks it.)
C26_SetMagicGlobal ==
    FrameEncoded /\ inp.magic = None =>
        wire.ok /\ HeaderMagic(wire.val) = MAGIC

\* C27: a message constructed with an explicit magic value g (any u32,
\* including 0) encodes with header magic g, whatever the global MAGIC was
\* at construction and after any sequence of set_magic calls made before or
\* after the construction.  (The statement of the claim; the code breaks it.)
C27_ExplicitMagicKept ==
    FrameEncoded /\ inp.magic # None =>
        wire.ok /\ HeaderMagic(wire.val) = inp.magic.some

\* C30: checksum consistency over time: for every message constructed
\* without a checksum override, after any sequence of set_magic and
\* set_version calls made between its construction and its encoding, the
\* checksum in the encoded header equals the first 4 bytes of the double
\* hash of the payload bytes in that same encoding.  (The statement of the
\* claim; the code breaks it.)
C30_ChecksumConsistentOverTime ==
    pc = "Message.encode" /\ inp.checksum = None /\ wire.ok =>
        Slice(wire.val, 20, HeaderLen) =
            Slice(dsha256(Slice(wire.val, HeaderLen, Len(wire.val))), 0, 4)

\* C28: reconstruction from bytes: for every message m of kind Version,
\* Verack or Addr, from_raw(encode(m)) succeeds and yields a message of the
\* same kind whose encoding is byte-for-byte equal to encode(m), the parsed
\* checksum being reused as the override rather than recomputed.  (The
\* statement of the claim; the code breaks it.)
C28_FromRawRebuilds ==
    pc = "Message.from_raw" /\ dcls = inp.cls
        /\ inp.cls \in {"Version", "Verack", "Addr"} =>
        /\ out.ok
        /\ out.val.cls = inp.cls
        /\ out.val.checksum = HeaderChecksum(wire.val)
        /\ Message_bytes(out.val, VERSION) = wire

(***************************************************************************)
(* Properties of the interleaved contexts, under ConcSpec.                 *)
(***************************************************************************)
\* the results of the calls of input i when they run alone, one after
\* another, under the MAGIC and VERSION recorded in i
AloneMessage(i) == Construct(i, i.VERSION, i.MAGIC)

AloneFrame(i) == Message_bytes(AloneMessage(i).val, i.VERSION)

AloneDecoded(i) == Message_decode(i.cls, AloneFrame(i).val)

\* C25: encode and decode calls on independent inputs, run by several
\* contexts in any interleaving in which no context calls set_magic or
\* set_version, each return the same result as when run alone; MAGIC and
\* VERSION, the only state one call writes and another reads, stay as they
\* were.
C25_ContextsIndependent ==
    \A c \in Contexts :
        /\ MAGIC = inp[c].MAGIC
        /\ VERSION = inp[c].VERSION
        /\ pc[c] # "idle" => msg[c] = AloneMessage(inp[c])
        /\ pc[c] = "Message.encode" => wire[c] = AloneFrame(inp[c])
        /\ pc[c] = "Message.decode" => out[c] = AloneDecoded(inp[c])

\* both contexts have decoded, one a Verack built with its own magic and the
\* other a Version built under the global one
C25_Witness ==
    /\ pc = [c \in Contexts |-> "Message.decode"]
    /\ \E c, d \in Contexts :
        /\ inp[c].cls = "Verack" /\ inp[c].magic = Some(X_deadbeaf)
        /\ inp[d].cls = "Version"
        /\ out[c].ok
        /\ out[c].val.magic = X_deadbeaf
        /\ wire[d].ok
        /\ SubSeq(wire[d].val, 1, 4) = SubSeq(MAGIC, 1, 4)

====
